---- MODULE Spec2Model ----
(***************************************************************************)
(* A model of gh-folder-download's concurrent download engine:             *)
(*   - ParallelDownloader.download_files and the per-task coroutine        *)
(*     _download_single_file (parallel_downloader.py), with the parts of   *)
(*     DownloadCache (cache.py) and FileIntegrityChecker (integrity.py)    *)
(*     the coroutine calls;                                                *)
(*   - RetryHandler.retry and _calculate_delay (retry.py).                 *)
(* The two parts have their own specification (Spec, SpecRetry) over one   *)
(* set of variables; each specification leaves the other part's variables  *)
(* at their initial value.                                                 *)
(***************************************************************************)
EXTENDS Integers, Sequences, FiniteSets, TLC

\* ------------------------------------------------------------- bounds
\* Longest task list handed to download_files.
MaxTasks == 2
\* Largest max_concurrent_downloads.
MaxConc == 2

\* ---------------------------------------------------------- data model
\* DownloadTask.expected_size is "int | None": NoSize stands for None.
NoSize == -1

\* File sizes, counted in chunks of chunk_size bytes: a file is empty or holds
\* one chunk.  Sizes are only compared and added up, so the two values give
\* every outcome of the comparisons (equal, shorter, longer than expected).
Sizes == {0, 1}
ExpectedSizes == {NoSize} \cup Sizes

\* The remote content hash the tasks carry.
TaskSha == "sha_now"

\* CacheEntry, cut to the fields is_current and is_file_cached read.
CacheEntry(sha, size) == [sha |-> sha, size |-> size]

\* "task.expected_size or 0"
SizeOrZero(expected_size) == IF expected_size = NoSize THEN 0 ELSE expected_size

\* DownloadResult (duration left out: time is not part of this model).
\* error = "" stands for None.
DownloadResult(t, success, error, bytes, from_cache, verified) ==
  [task |-> t, success |-> success, error |-> error,
   bytes_downloaded |-> bytes, from_cache |-> from_cache,
   integrity_verified |-> verified]

\* What a coroutine of asyncio.gather(..., return_exceptions=True) ended with:
\* nothing yet, a DownloadResult, or an exception object.
NotReturned == [kind |-> "none"]
Returned(r) == [kind |-> "result", result |-> r]
Raised(msg) == [kind |-> "exception", msg |-> msg]

VARIABLES
  \* ---- ParallelDownloader / download_files
  download_tasks,            \* the input list: Seq of [expected_size, sha]
  max_concurrent_downloads,
  use_cache,
  verify_integrity,
  semaphore,                 \* asyncio.Semaphore._value
  pc,                        \* per task: where its coroutine is suspended
  cache_hit,                 \* per task: what _check_cache answered
  response_status,           \* per task: response.status (0: no response)
  raised,                    \* per task: the exception met in its pipeline
  total_downloaded,          \* per task: bytes streamed so far
  integrity_verified,        \* per task: local of _download_single_file
  fetches,                   \* per task: session.get calls issued
  gathered,                  \* per task: what gather collected
  cache_data,                \* DownloadCache.cache_data: key -> CacheEntry
  files,                     \* local file system: path -> size in bytes
  cache_file,                \* cache_metadata.json: key -> entry, as last saved
  processed_results,         \* the list download_files returns
  stats,                     \* ParallelDownloader.stats
  dl_pc,                     \* download_files: "idle" | "running" | "returned"
  \* ---- RetryHandler.retry
  retry_config,              \* the RetryConfig in force
  attempt,                   \* the loop variable of retry
  calls,                     \* how many times func has been invoked
  last_exception,            \* the exception of the latest failed call
  delay,                     \* the latest time.sleep argument, in tenths of a second
  rt_pc,                     \* retry: "idle" | "calling" | "returned" | "raised"
  rt_value,                  \* what retry returned
  rt_raised,                 \* what retry raised
  \* ---- RetryHandler._is_retryable applied to one exception
  cl_exception,              \* the exception handed to _is_retryable
  cl_result,                 \* what _is_retryable answered
  cl_pc,                     \* "idle" | "input" | "classified"
  \* ---- the function retry calls, and get_sha_for_branch_or_tag's arguments
  func,                      \* "func" (any callable) | "get_branch_sha"
  branch_or_tag,             \* the requested ref, as the words of its name
  repository,                \* the names of the repository's branches and tags
  \* ---- GitHubRateLimiter
  clock,                     \* time.time(), in milliseconds
  buffer_requests,
  core_rate_limit,           \* _core_rate_limit: a RateLimitInfo or None
  search_rate_limit,         \* _search_rate_limit
  last_update,               \* _last_update, in milliseconds
  last_request_time,         \* _last_request_time, in milliseconds
  lock,                      \* _lock: the thread holding it, 0 when free
  n_threads,                 \* the threads that call wait_if_needed
  wpc,                       \* per thread: where it is in wait_if_needed
  frame,                     \* per thread: the locals of its running call
  finished,                  \* per thread: what its latest finished call did
  n_calls,                   \* per thread: the calls it has begun
  last_return,               \* per bucket: when a call for it last returned
  \* ---- DownloadCache called on its own
  ca_last,                   \* the latest call of a cache operation
  \* ---- DownloadCache.__init__ over some cache document
  ld_document,               \* what is at the path of cache_metadata.json
  ld_pc,                     \* "idle" | "constructing" | "constructed" | "raised"
  ld_raised,                 \* the class of the exception __init__ raised
  ld_cache_data,             \* cache_data as _load_cache left it
  sv_cache_data,             \* cache_data of the DownloadCache that saves
  \* ---- download_folder_parallel up to the call of the downloader
  force,
  dest,                      \* fullpath: "absent" | "old" (there before) | "new"
  listing_error,             \* per directory: what get_dir_contents raises
  file_reply,                \* per file: what get_contents raises or returns
  wk_stack,                  \* the running calls of collect_tasks, innermost last
  wk_download_tasks,         \* download_tasks: the paths of the tasks collected
  wk_dirs,                   \* the local directories collect_tasks has made
  wk_listed,                 \* the directories whose listing was requested
  wk_log,                    \* what was logged with logger.error
  wk_pc,                     \* "idle" | "start" | "walking" | "returned" | "raised"
  wk_raised,                 \* the exception download_folder_parallel raised
  wk_result,                 \* "none" | "zero_stats" | "stats"
  wk_removed,                \* the local directories rmtree has removed
  filter_config,             \* the FilterConfig download_command made its FileFilter of
  \* ---- DownloadCache.clean_cache
  cn_last,                   \* the last call of clean_cache and what it did
  \* ---- the executor threads of _add_to_cache, one for each finished task
  tw_cache_data,             \* DownloadCache.cache_data: the keys in insertion order
  tw_file,                   \* the cache file: a sequence of chunks
  tw_pc,                     \* per thread: where it is in add_file_to_cache
  tw_iter,                   \* per thread: the dict iterator of _save_cache
  tw_data,                   \* per thread: the data _save_cache has built
  tw_offset,                 \* per thread: the position of its file object
  tw_history,                \* the values cache_data has had
  \* ---- GitHubRateLimiter.get_rate_limit_status
  st_last                    \* the last call of get_rate_limit_status

cfgVars == <<download_tasks, max_concurrent_downloads, use_cache, verify_integrity>>

taskVars == <<pc, cache_hit, response_status, raised, total_downloaded,
              integrity_verified, fetches, gathered>>

dlVars == <<cfgVars, semaphore, taskVars, cache_data, files, cache_file,
            processed_results, stats, dl_pc>>

rtVars == <<retry_config, attempt, calls, last_exception, delay, rt_pc, rt_value,
            rt_raised>>

clVars == <<cl_exception, cl_result, cl_pc>>

rsVars == <<func, branch_or_tag, repository>>

rlVars == <<clock, buffer_requests, core_rate_limit, search_rate_limit, last_update,
            last_request_time, lock, n_threads, wpc, frame, finished, n_calls,
            last_return>>

\* What the actions of one part leave alone: the variables of the other parts.
caVars == <<ca_last>>

ldVars == <<ld_document, ld_pc, ld_raised, ld_cache_data, sv_cache_data>>

wkVars == <<force, dest, listing_error, file_reply, wk_stack, wk_download_tasks,
            wk_dirs, wk_listed, wk_log, wk_pc, wk_raised, wk_result, wk_removed,
            filter_config>>

cnVars == <<cn_last>>

twVars == <<tw_cache_data, tw_file, tw_pc, tw_iter, tw_data, tw_offset, tw_history>>

stVars == <<st_last>>

\* download_files' own variables: dlVars without the cache and the files.
schedVars == <<cfgVars, semaphore, taskVars, processed_results, stats, dl_pc>>

nonDlVars == <<rtVars, clVars, rsVars, rlVars, caVars, ldVars, wkVars, cnVars, twVars, stVars>>
nonRtVars == <<dlVars, clVars, rsVars, rlVars, caVars, ldVars, wkVars, cnVars, twVars, stVars>>
nonClVars == <<dlVars, rtVars, rsVars, rlVars, caVars, ldVars, wkVars, cnVars, twVars, stVars>>
nonRlVars == <<dlVars, rtVars, clVars, rsVars, caVars, ldVars, wkVars, cnVars, twVars, stVars>>
nonCaVars == <<schedVars, rtVars, clVars, rsVars, rlVars, ldVars, wkVars, cnVars, twVars, stVars>>
nonLdVars == <<dlVars, rtVars, clVars, rsVars, rlVars, caVars, wkVars, cnVars, twVars, stVars>>
nonWkVars == <<dlVars, rtVars, clVars, rsVars, rlVars, caVars, ldVars, cnVars, twVars, stVars>>

nonCnVars == <<dlVars, rtVars, clVars, rsVars, rlVars, caVars, wkVars, twVars, stVars>>

\* What get_rate_limit_status leaves alone besides the limiter's variables.
nonStVars == <<dlVars, rtVars, clVars, rsVars, caVars, ldVars, wkVars, cnVars, twVars>>
nonTwVars == <<dlVars, rtVars, clVars, rsVars, rlVars, caVars, ldVars, wkVars, cnVars, stVars>>

vars == <<dlVars, rtVars, clVars, rsVars, rlVars, caVars, ldVars, wkVars, cnVars,
          twVars, stVars>>

N == Len(download_tasks)
Tasks == 1 .. N

\* A map with one key removed ("del d[k]") or set ("d[k] = v").
Del(d, k) == [x \in DOMAIN d \ {k} |-> d[x]]
Put(d, k, v) == [x \in DOMAIN d \cup {k} |-> IF x = k THEN v ELSE d[x]]

\* -------------------------------------------------------------- cache.py
\* An entry that is current whenever its hash is.
is_current_by_sha(entry, github_sha, github_size) == entry.sha = github_sha

\* CacheEntry.is_current
is_current(entry, github_sha, github_size) ==
  entry.sha = github_sha /\ entry.size = github_size

\* A cache that removes an entry it finds outdated.
is_file_cached_evicting_outdated(cd, fs, key, github_sha, github_size) ==
  IF key \notin DOMAIN cd
    THEN [hit |-> FALSE, cache_data |-> cd]
  ELSE IF key \notin DOMAIN fs
    THEN [hit |-> FALSE, cache_data |-> Del(cd, key)]
  ELSE IF ~is_current(cd[key], github_sha, github_size)
    THEN [hit |-> FALSE, cache_data |-> Del(cd, key)]
  ELSE IF fs[key] # cd[key].size
    THEN [hit |-> FALSE, cache_data |-> Del(cd, key)]
  ELSE [hit |-> TRUE, cache_data |-> cd]

\* A cache that keeps an entry whose local file has another length.
is_file_cached_keeping_mismatched(cd, fs, key, github_sha, github_size) ==
  IF key \notin DOMAIN cd
    THEN [hit |-> FALSE, cache_data |-> cd]
  ELSE IF key \notin DOMAIN fs
    THEN [hit |-> FALSE, cache_data |-> Del(cd, key)]
  ELSE IF ~is_current(cd[key], github_sha, github_size)
    THEN [hit |-> FALSE, cache_data |-> cd]
  ELSE IF fs[key] # cd[key].size
    THEN [hit |-> FALSE, cache_data |-> cd]
  ELSE [hit |-> TRUE, cache_data |-> cd]

\* DownloadCache.is_file_cached: the answer, and the map it leaves behind.
is_file_cached(cd, fs, key, github_sha, github_size) ==
  IF key \notin DOMAIN cd
    THEN [hit |-> FALSE, cache_data |-> cd]
  ELSE IF key \notin DOMAIN fs
    THEN [hit |-> FALSE, cache_data |-> Del(cd, key)]
  ELSE IF ~is_current(cd[key], github_sha, github_size)
    THEN [hit |-> FALSE, cache_data |-> cd]
  ELSE IF fs[key] # cd[key].size
    THEN [hit |-> FALSE, cache_data |-> Del(cd, key)]
  ELSE [hit |-> TRUE, cache_data |-> cd]

\* DownloadCache.add_file_to_cache: the map it leaves behind.
add_file_to_cache(cd, key, github_sha, github_size) ==
  Put(cd, key, CacheEntry(github_sha, github_size))

\* A policy that saves every fifth entry only.
save_policy_every_fifth(n) == n % 5 = 0

\* The policy without its every-fifth part: a save while the map is small.
save_policy_when_small(n) == n <= 3

\* add_file_to_cache, lines 211-214: whether a map of n entries is saved.
save_policy(n) == n % 5 = 0 \/ n <= 3

\* DownloadCache._save_cache: the document it writes.
save_cache(cd) == cd

\* The document after add_file_to_cache has left the map cd (lines 213-214).
save_after_add(cd, document) ==
  IF save_policy(Cardinality(DOMAIN cd)) THEN save_cache(cd) ELSE document

\* A finalize that leaves the saving to add_file_to_cache.
finalize_without_save(cd, document) == document

\* DownloadCache.finalize: the document it leaves behind (lines 285-290).
finalize(cd, document) == IF cd # <<>> THEN save_cache(cd) ELSE document

\* ---------------------------------------------------------- integrity.py
\* verify_file_size followed by verify_file_content, as _verify_file_integrity
\* runs them: FALSE stands for the IntegrityError its verify() turns into False.
verify(fs, key, expected_size) ==
  /\ (expected_size # NoSize => (key \in DOMAIN fs /\ fs[key] = expected_size))
  /\ key \in DOMAIN fs

\* ------------------------------------------------ parallel_downloader.py
\* A semaphore that lets every acquire() through.
CanAcquireAlways(sem) == TRUE

\* asyncio.Semaphore: acquire() goes through only while the value is positive.
CanAcquire(sem) == sem > 0

\* A coroutine that keeps its permit when it leaves on a timeout.
SemAfterExitKeptOnTimeout(sem, how) == IF how = "timeout" THEN sem ELSE sem + 1

\* "async with semaphore": the permit is given back however the block is left
\* (how: "cache_hit", "http_error", "timeout", "error", "exception", "success").
SemAfterExit(sem, how) == sem + 1

\* A cache hit reported like a download.
CacheHitAsDownload(t, expected_size) ==
  DownloadResult(t, TRUE, "", SizeOrZero(expected_size), FALSE, TRUE)

\* The result of a cache hit (lines 203-210).
CacheHitResult(t, expected_size) ==
  DownloadResult(t, TRUE, "", SizeOrZero(expected_size), TRUE, TRUE)

\* The result of a response whose status is not 200 (lines 218-234).
HttpErrorResult(t) == DownloadResult(t, FALSE, "HTTP 404: Not Found", 0, FALSE, FALSE)

\* except asyncio.TimeoutError (lines 274-286).
TimeoutResult(t) == DownloadResult(t, FALSE, "Download timeout", 0, FALSE, FALSE)

\* except (aiohttp.ClientError, OSError, IOError) (lines 288-300).
UnexpectedErrorResult(t) == DownloadResult(t, FALSE, "Unexpected error", 0, FALSE, FALSE)

\* A finished download that counts as a success only when it verified.
SuccessOnlyIfVerified(t, bytes, verified) ==
  DownloadResult(t, verified, IF verified THEN "" ELSE "Integrity verification failed",
                 bytes, FALSE, verified)

\* The result of a finished download (lines 266-272).
SuccessResult(t, bytes, verified) == DownloadResult(t, TRUE, "", bytes, FALSE, verified)

\* An exception object of gather's list taken for a finished download.
ProcessResultLosingFailure(i, g) ==
  IF g.kind = "exception"
    THEN DownloadResult(i, TRUE, "", 0, FALSE, FALSE)
    ELSE g.result

\* download_files, lines 146-160: what becomes of one entry of gather's list.
ProcessResult(i, g) ==
  IF g.kind = "exception"
    THEN DownloadResult(i, FALSE, g.msg, 0, FALSE, FALSE)
    ELSE g.result

\* A loop over gather's list that skips the exception objects.
ProcessResultsSkippingExceptions(gs) ==
  LET kept == SelectSeq(gs, LAMBDA g : g.kind # "exception")
  IN  [i \in 1 .. Len(kept) |-> kept[i].result]

\* download_files, lines 145-160: the loop over gather's list.
ProcessResults(gs) == [i \in 1 .. Len(gs) |-> ProcessResult(i, gs[i])]

\* ParallelDownloader._update_stats: the loop over the results, from the i-th on.
RECURSIVE stats_loop(_, _, _)
stats_loop(st, rs, i) ==
  IF i > Len(rs) THEN st
  ELSE LET r == rs[i]
           st2 == IF r.success
                    THEN [st EXCEPT
                            !.successful_downloads = @ + 1,
                            !.total_bytes = @ + r.bytes_downloaded,
                            !.cached_files = IF r.from_cache THEN @ + 1 ELSE @]
                    ELSE [st EXCEPT !.failed_downloads = @ + 1]
       IN  stats_loop(st2, rs, i + 1)

\* ParallelDownloader._update_stats (total_time left out).
update_stats(st, rs) == stats_loop([st EXCEPT !.total_downloads = Len(rs)], rs, 1)

\* The coroutine of task t leaves "async with semaphore" with outcome g, after
\* meeting exception exc ("none": no exception).
Leave(t, g, how, exc) ==
  /\ gathered' = [gathered EXCEPT ![t] = g]
  /\ pc' = [pc EXCEPT ![t] = "done"]
  /\ raised' = [raised EXCEPT ![t] = exc]
  /\ semaphore' = SemAfterExit(semaphore, how)

\* _download_single_file up to its first suspension: take a permit, look the
\* task up in the cache (lines 193-210), and on a miss issue the GET (line 217).
\* asyncio runs this without yielding to another coroutine.  gather starts the
\* coroutines in list order and the semaphore wakes its waiters first come,
\* first served, so permits are taken in list order.
Acquire(t) ==
  /\ dl_pc = "running"
  /\ pc[t] = "pending"
  /\ \A u \in Tasks : u < t => pc[u] # "pending"
  /\ CanAcquire(semaphore)
  /\ LET task == download_tasks[t]
         chk == IF use_cache
                  THEN is_file_cached(cache_data, files, t, task.sha,
                                      SizeOrZero(task.expected_size))
                  ELSE [hit |-> FALSE, cache_data |-> cache_data]
     IN  /\ cache_data' = chk.cache_data
         /\ cache_hit' = [cache_hit EXCEPT ![t] = chk.hit]
         /\ IF chk.hit
              THEN /\ gathered' = [gathered EXCEPT
                                     ![t] = Returned(CacheHitResult(t, task.expected_size))]
                   /\ pc' = [pc EXCEPT ![t] = "done"]
                   /\ semaphore' = SemAfterExit(semaphore - 1, "cache_hit")
                   /\ fetches' = fetches
              ELSE /\ gathered' = gathered
                   /\ pc' = [pc EXCEPT ![t] = "fetching"]
                   /\ semaphore' = semaphore - 1
                   /\ fetches' = [fetches EXCEPT ![t] = @ + 1]
  /\ UNCHANGED <<cfgVars, response_status, raised, total_downloaded,
                 integrity_verified, files, processed_results, stats, dl_pc, cache_file, nonDlVars>>

\* A handler that opens the local file before it looks at the status.
ResponseNot200AfterOpen(t) ==
  /\ pc[t] = "fetching"
  /\ response_status' = [response_status EXCEPT ![t] = 404]
  /\ files' = Put(files, t, 0)
  /\ Leave(t, Returned(HttpErrorResult(t)), "http_error", "none")
  /\ UNCHANGED <<cfgVars, cache_hit, total_downloaded, integrity_verified, fetches,
                 cache_data, processed_results, stats, dl_pc, cache_file, nonDlVars>>

\* The response arrives with a status other than 200 (lines 218-234).
ResponseNot200(t) ==
  /\ pc[t] = "fetching"
  /\ response_status' = [response_status EXCEPT ![t] = 404]
  /\ Leave(t, Returned(HttpErrorResult(t)), "http_error", "none")
  /\ UNCHANGED <<cfgVars, cache_hit, total_downloaded, integrity_verified, fetches,
                 cache_data, files, processed_results, stats, dl_pc, cache_file, nonDlVars>>

\* The response arrives with status 200: open(local_path, "wb") (line 238).
Response200(t) ==
  /\ pc[t] = "fetching"
  /\ response_status' = [response_status EXCEPT ![t] = 200]
  /\ pc' = [pc EXCEPT ![t] = "streaming"]
  /\ files' = Put(files, t, 0)
  /\ total_downloaded' = [total_downloaded EXCEPT ![t] = 0]
  /\ UNCHANGED <<cfgVars, semaphore, cache_hit, raised, integrity_verified, fetches,
                 gathered, cache_data, processed_results, stats, dl_pc, cache_file, nonDlVars>>

\* One chunk of the body is written (lines 239-243).
Chunk(t) ==
  /\ pc[t] = "streaming"
  /\ total_downloaded[t] + 1 \in Sizes
  /\ files' = Put(files, t, files[t] + 1)
  /\ total_downloaded' = [total_downloaded EXCEPT ![t] = @ + 1]
  /\ UNCHANGED <<cfgVars, semaphore, pc, cache_hit, response_status, raised,
                 integrity_verified, fetches, gathered, cache_data,
                 processed_results, stats, dl_pc, cache_file, nonDlVars>>

\* asyncio.TimeoutError while waiting for the response or for a chunk
\* (lines 274-286).
Timeout(t) ==
  /\ pc[t] \in {"fetching", "streaming"}
  /\ Leave(t, Returned(TimeoutResult(t)), "timeout", "TimeoutError")
  /\ UNCHANGED <<cfgVars, cache_hit, response_status, total_downloaded,
                 integrity_verified, fetches, cache_data, files, processed_results,
                 stats, dl_pc, cache_file, nonDlVars>>

\* aiohttp.ClientError or OSError while fetching, streaming or writing
\* (lines 288-300).
ClientError(t) ==
  /\ pc[t] \in {"fetching", "streaming"}
  /\ Leave(t, Returned(UnexpectedErrorResult(t)), "error", "ClientError")
  /\ UNCHANGED <<cfgVars, cache_hit, response_status, total_downloaded,
                 integrity_verified, fetches, cache_data, files, processed_results,
                 stats, dl_pc, cache_file, nonDlVars>>

\* An exception no except clause of _download_single_file names leaves the
\* coroutine; gather(return_exceptions=True) collects it (line 142).
FetchException(t) ==
  /\ pc[t] = "fetching"
  /\ Leave(t, Raised("RuntimeError"), "exception", "RuntimeError")
  /\ UNCHANGED <<cfgVars, cache_hit, response_status, total_downloaded,
                 integrity_verified, fetches, cache_data, files, processed_results,
                 stats, dl_pc, cache_file, nonDlVars>>

\* The body ends (line 250): verification and the cache write each run in an
\* executor, which suspends the coroutine; with both off the result is built.
StreamEnd(t) ==
  /\ pc[t] = "streaming"
  /\ IF verify_integrity
       THEN /\ pc' = [pc EXCEPT ![t] = "verifying"]
            /\ UNCHANGED <<integrity_verified, gathered, semaphore, raised>>
       ELSE /\ integrity_verified' = [integrity_verified EXCEPT ![t] = TRUE]
            /\ IF use_cache
                 THEN /\ pc' = [pc EXCEPT ![t] = "caching"]
                      /\ UNCHANGED <<gathered, semaphore, raised>>
                 ELSE Leave(t, Returned(SuccessResult(t, total_downloaded[t], TRUE)),
                            "success", "none")
  /\ UNCHANGED <<cfgVars, cache_hit, response_status, total_downloaded, fetches,
                 cache_data, files, processed_results, stats, dl_pc, cache_file, nonDlVars>>

\* _verify_file_integrity returns (lines 251-257): True, or False after its
\* verify() caught the checker's IntegrityError (lines 330-334).
VerifyDone(t) ==
  /\ pc[t] = "verifying"
  /\ LET v == verify(files, t, download_tasks[t].expected_size)
     IN  /\ integrity_verified' = [integrity_verified EXCEPT ![t] = v]
         /\ IF use_cache /\ v
              THEN /\ pc' = [pc EXCEPT ![t] = "caching"]
                   /\ UNCHANGED <<gathered, semaphore, raised>>
              ELSE Leave(t, Returned(SuccessResult(t, total_downloaded[t], v)),
                         "success", IF v THEN "none" ELSE "IntegrityError@verify")
  /\ UNCHANGED <<cfgVars, cache_hit, response_status, total_downloaded, fetches,
                 cache_data, files, processed_results, stats, dl_pc, cache_file, nonDlVars>>

\* The executor job of _verify_file_integrity raises an OSError (Path.exists
\* on an unreadable directory): not an IntegrityError, so verify() lets it
\* through and the except clause of lines 288-300 takes it.
VerifyError(t) ==
  /\ pc[t] = "verifying"
  /\ Leave(t, Returned(UnexpectedErrorResult(t)), "error", "OSError@verify")
  /\ UNCHANGED <<cfgVars, cache_hit, response_status, total_downloaded,
                 integrity_verified, fetches, cache_data, files, processed_results,
                 stats, dl_pc, cache_file, nonDlVars>>

\* _add_to_cache returns after add_file_to_cache (lines 256-272, 342-373).
CacheDone(t) ==
  /\ pc[t] = "caching"
  /\ cache_data' = add_file_to_cache(cache_data, t, download_tasks[t].sha,
                                     SizeOrZero(download_tasks[t].expected_size))
  /\ cache_file' = save_after_add(cache_data', cache_file)
  /\ Leave(t, Returned(SuccessResult(t, total_downloaded[t], integrity_verified[t])),
           "success", "none")
  /\ UNCHANGED <<cfgVars, cache_hit, response_status, total_downloaded,
                 integrity_verified, fetches, files, processed_results, stats,
                 dl_pc, nonDlVars>>

\* add_to_cache() meets an OSError, IOError or ValueError: lines 367-368 log a
\* warning and the download goes on to its success result.  These come from
\* calculate_checksums, before the entry is put into the map.
CacheWriteError(t) ==
  /\ pc[t] = "caching"
  /\ t \notin DOMAIN cache_data
  /\ Leave(t, Returned(SuccessResult(t, total_downloaded[t], integrity_verified[t])),
           "success", "OSError@cache")
  /\ UNCHANGED <<cfgVars, cache_hit, response_status, total_downloaded,
                 integrity_verified, fetches, cache_data, files, processed_results,
                 stats, dl_pc, cache_file, nonDlVars>>

\* calculate_checksums raises IntegrityError (the file cannot be read): no
\* except clause on the way names it, so it leaves the coroutine.
CacheWriteException(t) ==
  /\ pc[t] = "caching"
  /\ t \notin DOMAIN cache_data
  /\ verify_integrity
  /\ Leave(t, Raised("IntegrityError"), "exception", "IntegrityError@cache")
  /\ UNCHANGED <<cfgVars, cache_hit, response_status, total_downloaded,
                 integrity_verified, fetches, cache_data, files, processed_results,
                 stats, dl_pc, cache_file, nonDlVars>>

\* Each _add_to_cache runs its job on a thread of its own executor (lines
\* 370-373) and nothing locks the cache: while the job of t is in the
\* comprehension of _save_cache (cache.py line 98), the job of another task
\* puts its entry under a new key (line 208), and the next step of the
\* iteration raises RuntimeError ("dictionary changed size during
\* iteration").  Neither _save_cache nor add_to_cache nor
\* _download_single_file names it, so it leaves the coroutine of t, whose
\* entry is in the map; the document is not written.
CacheSaveRace(t) ==
  /\ pc[t] = "caching"
  /\ save_policy(Cardinality(DOMAIN cache_data \cup {t}))
  /\ \E u \in Tasks \ {t} :
       /\ pc[u] = "caching"
       /\ u \notin DOMAIN cache_data
       /\ cache_data' =
            add_file_to_cache(
              add_file_to_cache(cache_data, t, download_tasks[t].sha,
                                SizeOrZero(download_tasks[t].expected_size)),
              u, download_tasks[u].sha, SizeOrZero(download_tasks[u].expected_size))
  /\ Leave(t, Raised("RuntimeError"), "exception", "RuntimeError@cache")
  /\ UNCHANGED <<cfgVars, cache_hit, response_status, total_downloaded,
                 integrity_verified, fetches, files, processed_results, stats,
                 dl_pc, cache_file, nonDlVars>>

\* download_files after gather (lines 114-115, 144-179).
Finish ==
  /\ dl_pc = "running"
  /\ \A t \in Tasks : pc[t] = "done"
  /\ dl_pc' = "returned"
  /\ IF N = 0
       THEN /\ processed_results' = <<>>
            /\ UNCHANGED stats
       ELSE /\ processed_results' = ProcessResults(gathered)
            /\ stats' = update_stats(stats, processed_results')
  /\ cache_file' = IF N # 0 /\ use_cache THEN finalize(cache_data, cache_file)
                   ELSE cache_file
  /\ UNCHANGED <<cfgVars, semaphore, taskVars, cache_data, files, nonDlVars>>

\* The entry add_file_to_cache writes for a task.
EntryOf(task) == CacheEntry(task.sha, SizeOrZero(task.expected_size))

Stats0 == [total_downloads |-> 0, successful_downloads |-> 0,
           failed_downloads |-> 0, cached_files |-> 0, total_bytes |-> 0]

\* RetryHandler.retry is not running.
RetryIdle ==
  /\ retry_config = [max_attempts |-> 0, base_delay |-> 0, max_delay |-> 0,
                     backoff_factor |-> 0, jitter |-> FALSE]
  /\ attempt = 0
  /\ calls = 0
  /\ last_exception = [type |-> "none", status |-> 0, message |-> <<>>]
  /\ delay = 0
  /\ rt_pc = "idle"
  /\ rt_value = "none"
  /\ rt_raised = [type |-> "none", status |-> 0, message |-> <<>>]
  /\ func = "func"
  /\ branch_or_tag = <<>>
  /\ repository = [branches |-> {}, tags |-> {}]

\* _is_retryable is not running.
ClassifyIdle ==
  /\ cl_exception = [type |-> "none", status |-> 0, message |-> <<>>]
  /\ cl_result = FALSE
  /\ cl_pc = "idle"

\* No GitHubRateLimiter has been made.
LimiterIdle ==
  /\ clock = 0
  /\ buffer_requests = 0
  /\ core_rate_limit = [known |-> FALSE, limit |-> 0, remaining |-> 0, reset_time |-> 0, used |-> 0]
  /\ search_rate_limit = [known |-> FALSE, limit |-> 0, remaining |-> 0, reset_time |-> 0, used |-> 0]
  /\ last_update = 0
  /\ last_request_time = 0
  /\ lock = 0
  /\ n_threads = 0
  /\ wpc = <<>>
  /\ frame = <<>>
  /\ finished = <<>>
  /\ n_calls = <<>>
  /\ last_return = [core |-> 0, search |-> 0]

\* download_folder_parallel has not been called.
\* get_rate_limit_status has not been called.
StatusIdle ==
  st_last = [op |-> "none", parity |-> 0, refreshed |-> "none", status |-> <<>>]

\* No executor thread of _add_to_cache has been started.
WritersIdle ==
  /\ tw_cache_data = <<>>
  /\ tw_file = <<>>
  /\ tw_pc = <<>>
  /\ tw_iter = <<>>
  /\ tw_data = <<>>
  /\ tw_offset = <<>>
  /\ tw_history = {}

\* clean_cache has not been called.
CleanIdle ==
  cn_last = [op |-> "none", max_age_days |-> 0, current_time |-> 0, before |-> <<>>,
             document |-> [kind |-> "missing"], returned |-> 0, saved |-> "none"]

WalkIdle ==
  /\ force = FALSE
  /\ dest = "absent"
  /\ listing_error = <<>>
  /\ file_reply = <<>>
  /\ wk_stack = <<>>
  /\ wk_download_tasks = <<>>
  /\ wk_dirs = {}
  /\ wk_listed = <<>>
  /\ wk_log = <<>>
  /\ wk_pc = "idle"
  /\ wk_raised = [type |-> "none", status |-> 0, message |-> <<>>]
  /\ wk_result = "none"
  /\ wk_removed = {}
  /\ filter_config = [include_patterns |-> {}, exclude_patterns |-> {}]

\* No operation of the cache has been called on its own, and no cache is
\* being made over a document.
CacheIdle ==
  /\ ca_last = [op |-> "none", key |-> 0, sha |-> "", size |-> 0, hit |-> FALSE,
                parity |-> 0, files_changed |-> FALSE, after_add |-> FALSE,
                repeated |-> FALSE]
  /\ ld_document = [kind |-> "missing"]
  /\ ld_pc = "idle"
  /\ ld_raised = "none"
  /\ ld_cache_data = <<>>
  /\ sv_cache_data = <<>>

\* download_files has been called on a new ParallelDownloader: the task list
\* and the configuration are the inputs, the semaphore is new and every
\* coroutine is scheduled.  The cache, just loaded from its document, holds for
\* some tasks the entry an earlier session wrote for the same remote content;
\* the file that session downloaded is still there or has been removed since.
\* (Entries for older content and files changed behind the cache belong to
\* the cache's own operations, not to this specification.)
Init ==
  /\ \E n \in 0 .. MaxTasks :
       download_tasks \in [1 .. n -> [expected_size : ExpectedSizes, sha : {TaskSha}]]
  /\ max_concurrent_downloads \in 1 .. MaxConc
  /\ use_cache \in BOOLEAN
  /\ verify_integrity \in BOOLEAN
  /\ semaphore = max_concurrent_downloads
  /\ pc = [t \in Tasks |-> "pending"]
  /\ cache_hit = [t \in Tasks |-> FALSE]
  /\ response_status = [t \in Tasks |-> 0]
  /\ raised = [t \in Tasks |-> "none"]
  /\ total_downloaded = [t \in Tasks |-> 0]
  /\ integrity_verified = [t \in Tasks |-> FALSE]
  /\ fetches = [t \in Tasks |-> 0]
  /\ gathered = [t \in Tasks |-> NotReturned]
  /\ \E C \in (IF use_cache THEN SUBSET Tasks ELSE {{}}) :
       cache_data = [t \in C |-> EntryOf(download_tasks[t])]
  /\ \E S \in SUBSET DOMAIN cache_data :
       files = [t \in S |-> cache_data[t].size]
  /\ cache_file = cache_data
  /\ processed_results = <<>>
  /\ stats = Stats0
  /\ dl_pc = "running"
  /\ RetryIdle
  /\ ClassifyIdle
  /\ LimiterIdle
  /\ WalkIdle
  /\ CleanIdle
  /\ WritersIdle
  /\ StatusIdle
  /\ CacheIdle

Next ==
  \/ \E t \in Tasks : Acquire(t)
  \/ \E t \in Tasks : ResponseNot200(t)
  \/ \E t \in Tasks : Response200(t)
  \/ \E t \in Tasks : Chunk(t)
  \/ \E t \in Tasks : Timeout(t)
  \/ \E t \in Tasks : ClientError(t)
  \/ \E t \in Tasks : FetchException(t)
  \/ \E t \in Tasks : StreamEnd(t)
  \/ \E t \in Tasks : VerifyDone(t)
  \/ \E t \in Tasks : VerifyError(t)
  \/ \E t \in Tasks : CacheDone(t)
  \/ \E t \in Tasks : CacheWriteError(t)
  \/ \E t \in Tasks : CacheWriteException(t)
  \/ \E t \in Tasks : CacheSaveRace(t)
  \/ Finish

Spec == Init /\ [][Next]_vars

\* -------------- parallel_downloader.py: download_files, call after call

\* Another call of download_files is made while the calls so far have
\* counted at most MaxCounted results.
MaxCounted == 1

\* ParallelDownloader.get_stats, lines 389-412, the two rates (floats in the
\* code, whole per cent here: a rate is above 100 here exactly when it is
\* above 100 there, the totals being at most MaxTasks).
get_stats(st) ==
  [success_rate |-> IF st.total_downloads > 0
                      THEN (st.successful_downloads * 100) \div st.total_downloads
                      ELSE 0,
   cache_hit_rate |-> IF st.total_downloads > 0
                        THEN (st.cached_files * 100) \div st.total_downloads
                        ELSE 0]

\* download_files is called again on the same ParallelDownloader, lines
\* 113-136: the task list, the semaphore and the coroutines are new; the
\* statistics of __init__ (lines 91-98), the cache and the files on disk are
\* those the earlier calls have left.
DownloadFilesAgain ==
  /\ dl_pc = "returned"
  /\ stats.successful_downloads + stats.failed_downloads <= MaxCounted
  /\ \E n \in 0 .. MaxTasks :
       download_tasks' \in [1 .. n -> [expected_size : ExpectedSizes, sha : {TaskSha}]]
  /\ semaphore' = max_concurrent_downloads
  /\ pc' = [t \in DOMAIN download_tasks' |-> "pending"]
  /\ cache_hit' = [t \in DOMAIN download_tasks' |-> FALSE]
  /\ response_status' = [t \in DOMAIN download_tasks' |-> 0]
  /\ raised' = [t \in DOMAIN download_tasks' |-> "none"]
  /\ total_downloaded' = [t \in DOMAIN download_tasks' |-> 0]
  /\ integrity_verified' = [t \in DOMAIN download_tasks' |-> FALSE]
  /\ fetches' = [t \in DOMAIN download_tasks' |-> 0]
  /\ gathered' = [t \in DOMAIN download_tasks' |-> NotReturned]
  /\ processed_results' = <<>>
  /\ dl_pc' = "running"
  /\ UNCHANGED <<max_concurrent_downloads, use_cache, verify_integrity,
                 cache_data, files, cache_file, stats, nonDlVars>>

NextBatches ==
  \/ \E t \in Tasks : Acquire(t)
  \/ \E t \in Tasks : ResponseNot200(t)
  \/ \E t \in Tasks : Response200(t)
  \/ \E t \in Tasks : Chunk(t)
  \/ \E t \in Tasks : Timeout(t)
  \/ \E t \in Tasks : ClientError(t)
  \/ \E t \in Tasks : FetchException(t)
  \/ \E t \in Tasks : StreamEnd(t)
  \/ \E t \in Tasks : VerifyDone(t)
  \/ \E t \in Tasks : VerifyError(t)
  \/ \E t \in Tasks : CacheDone(t)
  \/ \E t \in Tasks : CacheWriteError(t)
  \/ \E t \in Tasks : CacheWriteException(t)
  \/ \E t \in Tasks : CacheSaveRace(t)
  \/ Finish
  \/ DownloadFilesAgain

SpecBatches == Init /\ [][NextBatches]_vars

\* Entries of earlier sessions for files that are not among the tasks: how
\* many the cache may hold, their keys and what they say.
OtherCounts == {0, 3, 4}
OtherKeys(k) == {100 + i : i \in 1 .. k}
OtherEntry == CacheEntry("sha_other", 0)

\* download_files has been called on a ParallelDownloader with a cache that
\* was loaded from a document holding entries for other files too.
InitPersist ==
  /\ \E n \in 0 .. MaxTasks :
       download_tasks \in [1 .. n -> [expected_size : ExpectedSizes, sha : {TaskSha}]]
  /\ max_concurrent_downloads \in 1 .. MaxConc
  /\ use_cache = TRUE
  /\ verify_integrity \in BOOLEAN
  /\ semaphore = max_concurrent_downloads
  /\ pc = [t \in Tasks |-> "pending"]
  /\ cache_hit = [t \in Tasks |-> FALSE]
  /\ response_status = [t \in Tasks |-> 0]
  /\ raised = [t \in Tasks |-> "none"]
  /\ total_downloaded = [t \in Tasks |-> 0]
  /\ integrity_verified = [t \in Tasks |-> FALSE]
  /\ fetches = [t \in Tasks |-> 0]
  /\ gathered = [t \in Tasks |-> NotReturned]
  /\ \E C \in SUBSET Tasks : \E k \in OtherCounts :
       cache_data = [key \in C \cup OtherKeys(k) |->
                       IF key \in C THEN EntryOf(download_tasks[key]) ELSE OtherEntry]
  /\ \E S \in SUBSET (DOMAIN cache_data \cap Tasks) :
       files = [t \in S |-> cache_data[t].size]
  /\ cache_file = cache_data
  /\ processed_results = <<>>
  /\ stats = Stats0
  /\ dl_pc = "running"
  /\ RetryIdle
  /\ ClassifyIdle
  /\ LimiterIdle
  /\ WalkIdle
  /\ CleanIdle
  /\ WritersIdle
  /\ StatusIdle
  /\ CacheIdle

SpecPersist == InitPersist /\ [][Next]_vars

\* The event loop runs a coroutine that can take a step, and every request,
\* executor job and chunk wait ends: some step is taken while one is possible.
FairSpec == Spec /\ WF_vars(Next)

\* ------------------------------------------------------------- retry.py
\* Largest RetryConfig.max_attempts.
MaxAttempts == 4

\* RetryConfig values, in seconds: the defaults of RetryConfig, APIRetryHandler
\* and DownloadRetryHandler are among them, with a max_delay small enough to
\* cap the first delays and a base_delay above the rate-limit floor.
BaseDelays == {1, 2, 100}
MaxDelays == {3, 60, 120}
BackoffFactors == {1, 2}

RetryConfigs ==
  [max_attempts : 0 .. MaxAttempts, base_delay : BaseDelays, max_delay : MaxDelays,
   backoff_factor : BackoffFactors, jitter : BOOLEAN]

\* random.uniform(0.5, 1.5), in tenths: the two ends and the middle.
JitterFactors == {5, 10, 15}

\* "delay = max(delay, 60)": the floor, in seconds.
RateLimitFloor == 60

\* Exceptions func may raise: a class, GithubException's status (0: none) and
\* the message as its sequence of words.
Error(type, status, message) == [type |-> type, status |-> status, message |-> message]

\* "last_exception = None", and nothing raised.
NoException == Error("none", 0, <<>>)

\* RetryError("Failed after ... attempts: ...") (lines 130-132).
RetryError == Error("RetryError", 0, <<"Failed", "after", "attempts">>)

Errors ==
  { Error("ConnectionError", 0, <<"Network", "error">>),
    Error("GithubException", 403, <<"API", "rate", "limit", "exceeded">>),
    Error("GithubException", 403, <<"Forbidden">>),
    Error("GithubException", 404, <<"Not", "Found">>),
    Error("ValueError", 0, <<"Invalid", "input">>),
    Error("Exception", 0, <<"Rate", "limit", "reached">>) }

\* The classes an exception of a class is an instance of.
Mro(type) ==
  CASE type = "ConnectionError" -> {"ConnectionError", "OSError", "Exception"}
    [] type = "TimeoutError" -> {"TimeoutError", "OSError", "Exception"}
    [] type = "PermissionError" -> {"PermissionError", "OSError", "Exception"}
    [] type = "OSError" -> {"OSError", "Exception"}
    [] type = "JSONDecodeError" -> {"JSONDecodeError", "ValueError", "Exception"}
    [] type = "KeyError" -> {"KeyError", "LookupError", "Exception"}
    [] type = "TypeError" -> {"TypeError", "Exception"}
    [] type = "AttributeError" -> {"AttributeError", "Exception"}
    [] type = "GithubException" -> {"GithubException", "Exception"}
    [] type = "ValueError" -> {"ValueError", "Exception"}
    [] OTHER -> {"Exception"}

isinstance(e, classes) == Mro(e.type) \cap classes # {}

RETRYABLE_EXCEPTIONS == {"ConnectionError", "TimeoutError", "OSError"}

RETRYABLE_GITHUB_STATUS == {403, 500, 502, 503, 504}

\* str(e): GithubException prints its status before its data.
str(e) ==
  IF e.type = "GithubException" THEN <<ToString(e.status)>> \o e.message
  ELSE e.message

\* str.lower, word by word.
LowerWord(w) ==
  CASE w = "API" -> "api"
    [] w = "Rate" -> "rate"
    [] w = "Network" -> "network"
    [] w = "Forbidden" -> "forbidden"
    [] w = "Not" -> "not"
    [] w = "Found" -> "found"
    [] w = "Invalid" -> "invalid"
    [] w = "No" -> "no"
    [] w = "Request" -> "request"
    [] w = "Connection" -> "connection"
    [] w = "Service" -> "service"
    [] w = "Limit" -> "limit"
    [] OTHER -> w

lower(s) == [i \in DOMAIN s |-> LowerWord(s[i])]

\* The words ws follow one another somewhere in s: re.search(r"\b...\b") of an
\* indicator finds whole words only, so "timeouts" is no match for "timeout".
\* No word of any message here merely contains "rate" or "limit", so the
\* substring test '"rate limit" in ...' of retry (line 115) agrees with it.
ContainsWords(s, ws) ==
  \E i \in 1 .. (Len(s) - Len(ws) + 1) : SubSeq(s, i, i + Len(ws) - 1) = ws

temporary_indicators ==
  {<<"timeout">>, <<"connection">>, <<"network">>, <<"temporary">>,
   <<"unavailable">>, <<"rate", "limit">>}

\* An exception kind that is always retried.
AlwaysRetryable(e) == TRUE

\* A classification that looks for the indicators in a GithubException too.
is_retryable_by_status_or_words(e) ==
  IF isinstance(e, RETRYABLE_EXCEPTIONS) THEN TRUE
  ELSE (isinstance(e, {"GithubException"}) /\ e.status \in RETRYABLE_GITHUB_STATUS)
       \/ \E ind \in temporary_indicators : ContainsWords(lower(str(e)), ind)

\* RetryHandler._is_retryable
is_retryable(e) ==
  IF isinstance(e, RETRYABLE_EXCEPTIONS) THEN TRUE
  ELSE IF isinstance(e, {"GithubException"}) THEN e.status \in RETRYABLE_GITHUB_STATUS
  ELSE \E ind \in temporary_indicators : ContainsWords(lower(str(e)), ind)

Min(a, b) == IF a <= b THEN a ELSE b
Max(a, b) == IF a >= b THEN a ELSE b

RECURSIVE Pow(_, _)
Pow(b, n) == IF n = 0 THEN 1 ELSE b * Pow(b, n - 1)

\* A delay that is never capped.
calculate_delay_uncapped(n, config, jitter_factor) ==
  config.base_delay * Pow(config.backoff_factor, n)
    * (IF config.jitter THEN jitter_factor ELSE 10)

\* RetryHandler._calculate_delay, in tenths of a second; jitter_factor is what
\* random.uniform gave, in tenths.
calculate_delay(n, config, jitter_factor) ==
  LET d == config.base_delay * Pow(config.backoff_factor, n)
      capped == Min(d, config.max_delay)
  IN  IF config.jitter THEN capped * jitter_factor ELSE capped * 10

\* A retry loop without the rate-limit branch.
delay_without_floor(e, d) == d

\* retry, lines 109-124: the delay slept after exception e, from the computed
\* delay d (tenths of a second).
delay_for(e, d) ==
  IF isinstance(e, {"GithubException"}) /\ e.status = 403
       /\ ContainsWords(lower(str(e)), <<"rate", "limit">>)
    THEN Max(d, RateLimitFloor * 10)
    ELSE d

\* The names of refs, as their words: "-", "/" and "." part words, "_" does not.
RefNames ==
  { <<"main">>, <<"v1", "0">>, <<"network">>, <<"temporary", "fix">>,
    <<"feature", "connection">>, <<"timeouts">>, <<"fix_timeout">> }

BranchNames == {<<"main">>, <<"network">>}
TagNames == {<<"main">>, <<"v1", "0">>, <<"temporary", "fix">>}

\* get_sha_for_branch_or_tag: the sha of the branch of that name, else of the
\* tag of that name, else ValueError.
get_sha_for_branch_or_tag(repo, ref) ==
  IF ref \in repo.branches THEN [kind |-> "return", value |-> "sha_of_branch"]
  ELSE IF ref \in repo.tags THEN [kind |-> "return", value |-> "sha_of_tag"]
  ELSE [kind |-> "raise",
        exception |-> Error("ValueError", 0,
                            <<"No", "branch", "or", "tag", "named">> \o ref
                              \o <<"exists", "in", "the", "repository">>)]

\* What a call of func may return, and what it may raise.
FuncReturns ==
  IF func = "get_branch_sha"
    THEN LET r == get_sha_for_branch_or_tag(repository, branch_or_tag)
         IN  IF r.kind = "return" THEN {r.value} ELSE {}
    ELSE {"success", "other"}

FuncRaises ==
  IF func = "get_branch_sha"
    THEN LET r == get_sha_for_branch_or_tag(repository, branch_or_tag)
         IN  IF r.kind = "raise" THEN {r.exception} ELSE {}
    ELSE Errors

\* func returns: retry returns its value (line 92).
CallReturns ==
  /\ rt_pc = "calling"
  /\ attempt < retry_config.max_attempts
  /\ calls' = calls + 1
  /\ \E v \in FuncReturns : rt_value' = v
  /\ rt_pc' = "returned"
  /\ UNCHANGED <<nonRtVars, retry_config, attempt, last_exception, delay, rt_raised>>

\* func raises an exception that is not retryable: it is raised again
\* (lines 94-99).
CallRaisesNotRetryable ==
  /\ rt_pc = "calling"
  /\ attempt < retry_config.max_attempts
  /\ \E e \in FuncRaises :
       /\ ~is_retryable(e)
       /\ last_exception' = e
       /\ rt_raised' = e
  /\ calls' = calls + 1
  /\ rt_pc' = "raised"
  /\ UNCHANGED <<nonRtVars, retry_config, attempt, delay, rt_value>>

\* func raises a retryable exception on the last attempt: break, then
\* RetryError (lines 101-105, 129-132).
CallRaisesOnLastAttempt ==
  /\ rt_pc = "calling"
  /\ attempt < retry_config.max_attempts
  /\ attempt + 1 >= retry_config.max_attempts
  /\ \E e \in FuncRaises :
       /\ is_retryable(e)
       /\ last_exception' = e
  /\ calls' = calls + 1
  /\ rt_raised' = RetryError
  /\ rt_pc' = "raised"
  /\ UNCHANGED <<nonRtVars, retry_config, attempt, delay, rt_value>>

\* func raises a retryable exception with attempts left: the delay is
\* computed, floored for a rate limit, slept, and the loop goes on
\* (lines 107-127).
CallRaisesAndSleeps ==
  /\ rt_pc = "calling"
  /\ attempt < retry_config.max_attempts
  /\ attempt + 1 < retry_config.max_attempts
  /\ \E e \in FuncRaises :
       /\ is_retryable(e)
       /\ last_exception' = e
       /\ \E jitter_factor \in JitterFactors :
            delay' = delay_for(e, calculate_delay(attempt, retry_config, jitter_factor))
  /\ calls' = calls + 1
  /\ attempt' = attempt + 1
  /\ UNCHANGED <<nonRtVars, retry_config, rt_pc, rt_value, rt_raised>>

\* range(max_attempts) is empty: RetryError without a call (lines 87, 130).
NoAttempts ==
  /\ rt_pc = "calling"
  /\ attempt >= retry_config.max_attempts
  /\ rt_raised' = RetryError
  /\ rt_pc' = "raised"
  /\ UNCHANGED <<nonRtVars, retry_config, attempt, calls, last_exception, delay, rt_value>>

\* download_files is not running.
DownloadIdle ==
  /\ download_tasks = <<>>
  /\ max_concurrent_downloads = 1
  /\ use_cache = FALSE
  /\ verify_integrity = FALSE
  /\ semaphore = 1
  /\ pc = <<>>
  /\ cache_hit = <<>>
  /\ response_status = <<>>
  /\ raised = <<>>
  /\ total_downloaded = <<>>
  /\ integrity_verified = <<>>
  /\ fetches = <<>>
  /\ gathered = <<>>
  /\ cache_data = <<>>
  /\ files = <<>>
  /\ cache_file = <<>>
  /\ processed_results = <<>>
  /\ stats = Stats0
  /\ dl_pc = "idle"

\* RetryHandler.retry has been called with some configuration.
InitRetry ==
  /\ DownloadIdle
  /\ ClassifyIdle
  /\ LimiterIdle
  /\ WalkIdle
  /\ CleanIdle
  /\ WritersIdle
  /\ StatusIdle
  /\ CacheIdle
  /\ retry_config \in RetryConfigs
  /\ attempt = 0
  /\ calls = 0
  /\ last_exception = NoException
  /\ delay = 0
  /\ rt_pc = "calling"
  /\ rt_value = "none"
  /\ rt_raised = NoException
  /\ func = "func"
  /\ branch_or_tag = <<>>
  /\ repository = [branches |-> {}, tags |-> {}]

NextRetry ==
  \/ CallReturns
  \/ CallRaisesNotRetryable
  \/ CallRaisesOnLastAttempt
  \/ CallRaisesAndSleeps
  \/ NoAttempts

SpecRetry == InitRetry /\ [][NextRetry]_vars

\* APIRetryHandler's default configuration (lines 266-271); jitter is
\* RetryConfig's default.
APIRetryConfig ==
  [max_attempts |-> 3, base_delay |-> 1, max_delay |-> 30, backoff_factor |-> 2,
   jitter |-> TRUE]

\* main: retry_api_call(get_branch_sha, ...) for some ref, on some repository.
InitResolve ==
  /\ DownloadIdle
  /\ ClassifyIdle
  /\ LimiterIdle
  /\ WalkIdle
  /\ CleanIdle
  /\ WritersIdle
  /\ StatusIdle
  /\ CacheIdle
  /\ retry_config = APIRetryConfig
  /\ attempt = 0
  /\ calls = 0
  /\ last_exception = NoException
  /\ delay = 0
  /\ rt_pc = "calling"
  /\ rt_value = "none"
  /\ rt_raised = NoException
  /\ func = "get_branch_sha"
  /\ branch_or_tag \in RefNames
  /\ repository \in [branches : SUBSET BranchNames, tags : SUBSET TagNames]

\* retry_api_call: retry's loop; a RetryError is logged and raised again.
NextResolve ==
  \/ CallReturns
  \/ CallRaisesNotRetryable
  \/ CallRaisesOnLastAttempt
  \/ CallRaisesAndSleeps

SpecResolve == InitResolve /\ [][NextResolve]_vars

\* ------------------------------------------- _is_retryable on its own inputs

\* The classes of the exceptions handed to _is_retryable.
ErrorTypes ==
  {"ConnectionError", "TimeoutError", "OSError", "PermissionError",
   "GithubException", "ValueError", "KeyError", "Exception"}

\* GithubException.status: the five retried ones, and three that are not.
GithubStatuses == {401, 404, 429} \cup RETRYABLE_GITHUB_STATUS

\* Messages, as their words: with an indicator as a whole word, in another
\* case, inside a longer word, in the wrong order, and with none.
Messages ==
  { <<"test">>,
    <<"Invalid", "input">>,
    <<"Request", "timeout">>,
    <<"timeouts", "seen">>,
    <<"Connection", "reset">>,
    <<"Network", "error">>,
    <<"temporary", "failure">>,
    <<"Service", "unavailable">>,
    <<"API", "rate", "limit", "exceeded">>,
    <<"Rate", "Limit">>,
    <<"limit", "rate">>,
    <<"Not", "Found">> }

ClassifiedErrors ==
  { Error(type, status, message) :
      type \in ErrorTypes \ {"GithubException"}, status \in {0}, message \in Messages }
  \cup
  { Error("GithubException", status, message) :
      status \in GithubStatuses, message \in Messages }

\* _is_retryable is called with the exception and returns its answer.
Classify ==
  /\ cl_pc = "input"
  /\ cl_result' = is_retryable(cl_exception)
  /\ cl_pc' = "classified"
  /\ UNCHANGED <<nonClVars, cl_exception>>

\* _is_retryable is about to be called with some exception.
InitClassify ==
  /\ DownloadIdle
  /\ RetryIdle
  /\ LimiterIdle
  /\ WalkIdle
  /\ CleanIdle
  /\ WritersIdle
  /\ StatusIdle
  /\ CacheIdle
  /\ cl_exception \in ClassifiedErrors
  /\ cl_result = FALSE
  /\ cl_pc = "input"

NextClassify ==
  \/ Classify

SpecClassify == InitClassify /\ [][NextClassify]_vars

\* ------------------------------------------------------- rate_limiter.py
\* Time is in milliseconds; reset_time, as in the code, in whole seconds.

MaxThreads == 2

\* The calls of wait_if_needed made in all, by all threads.
MaxCalls == 2

\* time.time() when the limiter is made.
StartTimes == {100000}

\* The time the caller spends between the return of a call and its next call.
Elapsed == {0, 500, 31000}

\* "self._base_delay = 0.1", in milliseconds.
BaseDelay == 100

\* "time.time() - self._last_update > 30", in milliseconds.
RefreshAge == 30000

\* --rate-limit-buffer: at least 10 (main.py, lines 79-84).
BufferRequests == {10}

Buckets == {"core", "search"}

\* "rate_limit is None"
NoInfo == [known |-> FALSE, limit |-> 0, remaining |-> 0, reset_time |-> 0, used |-> 0]

RateLimitInfo(limit, remaining, reset_time) ==
  [known |-> TRUE, limit |-> limit, remaining |-> remaining, reset_time |-> reset_time,
   used |-> limit - remaining]

\* What github.get_rate_limit() may answer: the core quota exhausted, just
\* above the buffer (over 80% used), and unused; a reset already past and one
\* to come; the search quota, all of it left, is inside the buffer.
ResetTimes == {99, 102}

RateLimitReplies ==
  { [core |-> RateLimitInfo(60, r, t), search |-> RateLimitInfo(10, 10, t)] :
      r \in {0, 11, 60}, t \in ResetTimes }

\* RateLimitInfo.seconds_until_reset at time now.
seconds_until_reset(rate_limit, now) == Max(0, rate_limit.reset_time - (now \div 1000))

\* RateLimitInfo.usage_percentage > pct
usage_over(rate_limit, pct) ==
  rate_limit.limit # 0 /\ rate_limit.used * 100 > pct * rate_limit.limit

\* A delay without the cap of 30 seconds.
calculate_adaptive_delay_uncapped(rate_limit, buffer, now) ==
  LET remaining_time == seconds_until_reset(rate_limit, now)
      available_requests == rate_limit.remaining - buffer
      adaptive_factor == IF usage_over(rate_limit, 80) THEN 20
                         ELSE IF usage_over(rate_limit, 60) THEN 15
                         ELSE 10
  IN  IF rate_limit.remaining <= 0 THEN (remaining_time + 1) * 1000
      ELSE IF remaining_time <= 0 THEN BaseDelay
      ELSE IF available_requests <= 0 THEN Min(60000, remaining_time * 100)
      ELSE Max(BaseDelay,
               (remaining_time * 1000 * adaptive_factor) \div (available_requests * 10))

\* GitHubRateLimiter._calculate_adaptive_delay, in milliseconds.
calculate_adaptive_delay(rate_limit, buffer, now) ==
  LET remaining_time == seconds_until_reset(rate_limit, now)
      available_requests == rate_limit.remaining - buffer
      adaptive_factor == IF usage_over(rate_limit, 80) THEN 20
                         ELSE IF usage_over(rate_limit, 60) THEN 15
                         ELSE 10
  IN  IF rate_limit.remaining <= 0 THEN (remaining_time + 1) * 1000
      ELSE IF remaining_time <= 0 THEN BaseDelay
      ELSE IF available_requests <= 0 THEN Min(60000, remaining_time * 100)
      ELSE Min(30000,
               Max(BaseDelay,
                   (remaining_time * 1000 * adaptive_factor) \div (available_requests * 10)))

\* The snapshot of a bucket (lines 168-171).
snapshot_of(operation_type) ==
  IF operation_type = "search" THEN search_rate_limit ELSE core_rate_limit

Threads == 1 .. n_threads

RECURSIVE SumTo(_, _)
SumTo(f, n) == IF n = 0 THEN 0 ELSE f[n] + SumTo(f, n - 1)

\* No call is running, none has finished.
NoFrame ==
  [operation_type |-> "core", rate_limit |-> NoInfo, delay |-> 0, wake_at |-> 0,
   slept |-> 0, refresh_after_wait |-> "none", refresh_at_start |-> "none", path |-> "none",
   began_at |-> 0, stamp_at_call |-> 0, prev_return |-> 0, returned_at |-> 0]

\* The locals of a call that has just begun.
NewFrame(operation_type) ==
  [operation_type |-> operation_type, rate_limit |-> NoInfo, delay |-> 0, wake_at |-> 0,
   slept |-> 0, refresh_after_wait |-> "none", refresh_at_start |-> "none", path |-> "none",
   began_at |-> clock, stamp_at_call |-> last_request_time,
   prev_return |-> last_return[operation_type], returned_at |-> 0]

\* wait_if_needed returns on some path: the call is over.
ReturnFrom(t, path, f, now) ==
  /\ wpc' = [wpc EXCEPT ![t] = "idle"]
  /\ frame' = [frame EXCEPT ![t] = NoFrame]
  /\ finished' = [finished EXCEPT ![t] = [f EXCEPT !.path = path, !.returned_at = now]]
  /\ last_return' = [last_return EXCEPT ![f.operation_type] = now]

\* A thread calls wait_if_needed(operation_type), some time after its
\* previous call (line 157).
Call(t, operation_type, elapsed) ==
  /\ wpc[t] = "idle"
  /\ SumTo(n_calls, n_threads) < MaxCalls
  /\ n_calls' = [n_calls EXCEPT ![t] = @ + 1]
  /\ clock' = clock + elapsed
  /\ frame' = [frame EXCEPT ![t] = [NewFrame(operation_type) EXCEPT !.began_at = clock']]
  /\ wpc' = [wpc EXCEPT ![t] = "should_update"]
  /\ UNCHANGED <<nonRlVars, buffer_requests, core_rate_limit, search_rate_limit,
                 last_update, last_request_time, lock, n_threads, finished, last_return>>

\* _should_update_rate_limit, under the lock (lines 113-118, 165).
ShouldUpdate(t) ==
  /\ wpc[t] = "should_update"
  /\ lock = 0
  /\ wpc' = [wpc EXCEPT ![t] =
               IF ~core_rate_limit.known \/ clock - last_update > RefreshAge
                 THEN "update" ELSE "select"]
  /\ UNCHANGED <<nonRlVars, clock, buffer_requests, core_rate_limit, search_rate_limit,
                 last_update, last_request_time, lock, n_threads, frame, finished,
                 n_calls, last_return>>

\* _update_rate_limit_info takes the lock and asks the remote API
\* (lines 79-81), at the start of the call or after the wait for the reset.
UpdateBegin(t) ==
  /\ wpc[t] \in {"update", "update_after_wait"}
  /\ lock = 0
  /\ lock' = t
  /\ wpc' = [wpc EXCEPT ![t] = IF wpc[t] = "update" THEN "updating"
                                ELSE "updating_after_wait"]
  /\ UNCHANGED <<nonRlVars, clock, buffer_requests, core_rate_limit, search_rate_limit,
                 last_update, last_request_time, n_threads, frame, finished, n_calls,
                 last_return>>

\* What follows _update_rate_limit_info: the choice of the snapshot at the
\* start of a call, the return after the wait for the reset (lines 188-189).
AfterUpdate(t, outcome) ==
  LET f == IF wpc[t] = "updating"
             THEN [frame[t] EXCEPT !.refresh_at_start = outcome]
             ELSE [frame[t] EXCEPT !.refresh_after_wait = outcome]
  IN  IF wpc[t] = "updating"
        THEN /\ wpc' = [wpc EXCEPT ![t] = "select"]
             /\ frame' = [frame EXCEPT ![t] = f]
             /\ UNCHANGED <<finished, last_return>>
        ELSE ReturnFrom(t, "exhausted", f, clock)

\* A refresh that loses what the failed query left in place.
UpdateFailsClearing(t) ==
  /\ wpc[t] \in {"updating", "updating_after_wait"}
  /\ lock = t
  /\ lock' = 0
  /\ core_rate_limit' = NoInfo
  /\ search_rate_limit' = NoInfo
  /\ last_update' = clock
  /\ AfterUpdate(t, "failed")
  /\ UNCHANGED <<nonRlVars, clock, buffer_requests, last_request_time, n_threads, n_calls>>

\* The remote API answers: both snapshots and the update time are replaced
\* and the lock is released (lines 83-106).
UpdateOk(t) ==
  /\ wpc[t] \in {"updating", "updating_after_wait"}
  /\ lock = t
  /\ lock' = 0
  /\ \E rate_limit \in RateLimitReplies :
       /\ core_rate_limit' = rate_limit.core
       /\ search_rate_limit' = rate_limit.search
  /\ last_update' = clock
  /\ AfterUpdate(t, "ok")
  /\ UNCHANGED <<nonRlVars, clock, buffer_requests, last_request_time, n_threads, n_calls>>

\* get_rate_limit() raises: the with statement releases the lock and the
\* exception is logged as a warning (lines 81, 108-111).
UpdateFails(t) ==
  /\ wpc[t] \in {"updating", "updating_after_wait"}
  /\ lock = t
  /\ lock' = 0
  /\ AfterUpdate(t, "failed")
  /\ UNCHANGED <<nonRlVars, clock, buffer_requests, core_rate_limit, search_rate_limit,
                 last_update, last_request_time, n_threads, n_calls>>

\* No snapshot: the base delay is slept (lines 173-175).
SelectNoInfo(t) ==
  /\ wpc[t] = "select"
  /\ ~snapshot_of(frame[t].operation_type).known
  /\ frame' = [frame EXCEPT ![t].wake_at = clock + BaseDelay, ![t].slept = BaseDelay]
  /\ wpc' = [wpc EXCEPT ![t] = "sleep_base"]
  /\ UNCHANGED <<nonRlVars, clock, buffer_requests, core_rate_limit, search_rate_limit,
                 last_update, last_request_time, lock, n_threads, finished, n_calls,
                 last_return>>

\* A wait that ends at the reset itself.
wait_time_without_margin(rate_limit, now) == seconds_until_reset(rate_limit, now) * 1000

\* "wait_time = rate_limit.seconds_until_reset + 1", in milliseconds (line 182).
wait_time(rate_limit, now) == (seconds_until_reset(rate_limit, now) + 1) * 1000

\* Nothing remains: the wait for the reset is slept (lines 179-187).
SelectExhausted(t) ==
  LET rate_limit == snapshot_of(frame[t].operation_type)
  IN  /\ wpc[t] = "select"
      /\ rate_limit.known
      /\ rate_limit.remaining <= buffer_requests
      /\ rate_limit.remaining <= 0
      /\ frame' = [frame EXCEPT ![t].rate_limit = rate_limit,
                                ![t].wake_at = clock + wait_time(rate_limit, clock),
                                ![t].slept = wait_time(rate_limit, clock)]
      /\ wpc' = [wpc EXCEPT ![t] = "sleep_reset"]
      /\ UNCHANGED <<nonRlVars, clock, buffer_requests, core_rate_limit,
                     search_rate_limit, last_update, last_request_time, lock, n_threads,
                     finished, n_calls, last_return>>

\* Something remains: the adaptive delay is computed and compared with the
\* time since _last_request_time; the rest of it, if any, is slept
\* (lines 179, 190-206).
SelectNormal(t) ==
  LET rate_limit == snapshot_of(frame[t].operation_type)
      delay_ms == calculate_adaptive_delay(rate_limit, buffer_requests, clock)
      time_since_last == clock - last_request_time
  IN  /\ wpc[t] = "select"
      /\ rate_limit.known
      /\ ~(rate_limit.remaining <= buffer_requests /\ rate_limit.remaining <= 0)
      /\ IF time_since_last < delay_ms
            THEN /\ frame' = [frame EXCEPT ![t].rate_limit = rate_limit,
                                           ![t].delay = delay_ms,
                                           ![t].wake_at = clock + (delay_ms - time_since_last),
                                           ![t].slept = delay_ms - time_since_last]
                 /\ wpc' = [wpc EXCEPT ![t] = "sleep_spacing"]
            ELSE /\ frame' = [frame EXCEPT ![t].rate_limit = rate_limit,
                                           ![t].delay = delay_ms]
                 /\ wpc' = [wpc EXCEPT ![t] = "stamp"]
      /\ UNCHANGED <<nonRlVars, clock, buffer_requests, core_rate_limit,
                     search_rate_limit, last_update, last_request_time, lock, n_threads,
                     finished, n_calls, last_return>>

\* time.sleep(self._base_delay) ends and the call returns (lines 175-176).
WakeBase(t) ==
  /\ wpc[t] = "sleep_base"
  /\ clock' = Max(clock, frame[t].wake_at)
  /\ ReturnFrom(t, "no_snapshot", frame[t], Max(clock, frame[t].wake_at))
  /\ UNCHANGED <<nonRlVars, buffer_requests, core_rate_limit, search_rate_limit,
                 last_update, last_request_time, lock, n_threads, n_calls>>

\* time.sleep(wait_time) ends; the refresh is next (lines 187-188).
WakeReset(t) ==
  /\ wpc[t] = "sleep_reset"
  /\ clock' = Max(clock, frame[t].wake_at)
  /\ wpc' = [wpc EXCEPT ![t] = "update_after_wait"]
  /\ UNCHANGED <<nonRlVars, buffer_requests, core_rate_limit, search_rate_limit,
                 last_update, last_request_time, lock, n_threads, frame, finished,
                 n_calls, last_return>>

\* time.sleep(actual_delay) ends (line 206).
WakeSpacing(t) ==
  /\ wpc[t] = "sleep_spacing"
  /\ clock' = Max(clock, frame[t].wake_at)
  /\ wpc' = [wpc EXCEPT ![t] = "stamp"]
  /\ UNCHANGED <<nonRlVars, buffer_requests, core_rate_limit, search_rate_limit,
                 last_update, last_request_time, lock, n_threads, frame, finished,
                 n_calls, last_return>>

\* "self._last_request_time = time.time()" and the call returns (line 208).
Stamp(t) ==
  /\ wpc[t] = "stamp"
  /\ last_request_time' = clock
  /\ ReturnFrom(t, "normal", frame[t], clock)
  /\ UNCHANGED <<nonRlVars, clock, buffer_requests, core_rate_limit, search_rate_limit,
                 last_update, lock, n_threads, n_calls>>

\* A GitHubRateLimiter has been made: its first refresh has set the snapshots
\* or has failed (lines 57-75); some threads are about to call wait_if_needed.
InitLimiter ==
  /\ DownloadIdle
  /\ RetryIdle
  /\ ClassifyIdle
  /\ CacheIdle
  /\ WalkIdle
  /\ CleanIdle
  /\ WritersIdle
  /\ StatusIdle
  /\ clock \in StartTimes
  /\ buffer_requests \in BufferRequests
  /\ \/ /\ \E rate_limit \in RateLimitReplies :
             /\ core_rate_limit = rate_limit.core
             /\ search_rate_limit = rate_limit.search
        /\ last_update = clock
     \/ /\ core_rate_limit = NoInfo
        /\ search_rate_limit = NoInfo
        /\ last_update = 0
  /\ last_request_time = 0
  /\ lock = 0
  /\ last_return = [core |-> 0, search |-> 0]
  /\ n_threads \in 1 .. MaxThreads
  /\ wpc = [t \in 1 .. n_threads |-> "idle"]
  /\ frame = [t \in 1 .. n_threads |-> NoFrame]
  /\ finished = [t \in 1 .. n_threads |-> NoFrame]
  /\ n_calls = [t \in 1 .. n_threads |-> 0]

NextLimiter ==
  \/ \E t \in Threads : \E operation_type \in Buckets : \E elapsed \in Elapsed :
       Call(t, operation_type, elapsed)
  \/ \E t \in Threads : ShouldUpdate(t)
  \/ \E t \in Threads : UpdateBegin(t)
  \/ \E t \in Threads : UpdateOk(t)
  \/ \E t \in Threads : UpdateFails(t)
  \/ \E t \in Threads : SelectNoInfo(t)
  \/ \E t \in Threads : SelectExhausted(t)
  \/ \E t \in Threads : SelectNormal(t)
  \/ \E t \in Threads : WakeBase(t)
  \/ \E t \in Threads : WakeReset(t)
  \/ \E t \in Threads : WakeSpacing(t)
  \/ \E t \in Threads : Stamp(t)

SpecLimiter == InitLimiter /\ [][NextLimiter]_vars

\* ------------------------------ rate_limiter.py: get_rate_limit_status

\* A test that always asks for a refresh.
should_update_rate_limit_always(core, updated_at, now) == TRUE

\* _should_update_rate_limit (lines 113-118).
should_update_rate_limit(core, updated_at, now) ==
  ~core.known \/ now - updated_at > RefreshAge

\* round(rate_limit.usage_percentage, 1), in tenths of a percent (lines 37-42, 223).
usage_percentage_rounded(rate_limit) ==
  IF rate_limit.limit = 0 THEN 0
  ELSE (rate_limit.used * 2000 + rate_limit.limit) \div (2 * rate_limit.limit)

\* One bucket of the status (lines 217-224 and 227-235).
status_entry(rate_limit, now) ==
  [limit |-> rate_limit.limit, remaining |-> rate_limit.remaining,
   used |-> rate_limit.used, reset_time |-> rate_limit.reset_time,
   seconds_until_reset |-> seconds_until_reset(rate_limit, now),
   usage_percentage |-> usage_percentage_rounded(rate_limit)]

\* The dict get_rate_limit_status returns (lines 214-237): a bucket is in it
\* when its snapshot is held.
status_of(core, search, now) ==
  [b \in {x \in Buckets : (IF x = "core" THEN core ELSE search).known} |->
     status_entry(IF b = "core" THEN core ELSE search, now)]

\* get_rate_limit_status is called by a thread that is in no other call,
\* some time after its previous call, and finds the snapshot fresh
\* (lines 212, 215-237).
StatusFresh(t, elapsed) ==
  /\ wpc[t] = "idle"
  /\ lock = 0
  /\ SumTo(n_calls, n_threads) < MaxCalls
  /\ n_calls' = [n_calls EXCEPT ![t] = @ + 1]
  /\ clock' = clock + elapsed
  /\ ~should_update_rate_limit(core_rate_limit, last_update, clock')
  /\ st_last' = [op |-> "get_rate_limit_status", parity |-> 1 - st_last.parity,
                 refreshed |-> "none",
                 status |-> status_of(core_rate_limit, search_rate_limit, clock')]
  /\ UNCHANGED <<nonStVars, buffer_requests, core_rate_limit, search_rate_limit,
                 last_update, last_request_time, lock, n_threads, wpc, frame, finished,
                 last_return>>

\* get_rate_limit_status finds no snapshot or an old one, and the remote API
\* answers _update_rate_limit_info (lines 212-213, 79-106).
StatusRefreshOk(t, elapsed) ==
  /\ wpc[t] = "idle"
  /\ lock = 0
  /\ SumTo(n_calls, n_threads) < MaxCalls
  /\ n_calls' = [n_calls EXCEPT ![t] = @ + 1]
  /\ clock' = clock + elapsed
  /\ should_update_rate_limit(core_rate_limit, last_update, clock')
  /\ \E rate_limit \in RateLimitReplies :
       /\ core_rate_limit' = rate_limit.core
       /\ search_rate_limit' = rate_limit.search
  /\ last_update' = clock'
  /\ st_last' = [op |-> "get_rate_limit_status", parity |-> 1 - st_last.parity,
                 refreshed |-> "ok",
                 status |-> status_of(core_rate_limit', search_rate_limit', clock')]
  /\ UNCHANGED <<nonStVars, buffer_requests, last_request_time, lock, n_threads, wpc,
                 frame, finished, last_return>>

\* get_rate_limit_status finds no snapshot or an old one, and get_rate_limit()
\* raises, which _update_rate_limit_info logs (lines 212-213, 108-111).
StatusRefreshFails(t, elapsed) ==
  /\ wpc[t] = "idle"
  /\ lock = 0
  /\ SumTo(n_calls, n_threads) < MaxCalls
  /\ n_calls' = [n_calls EXCEPT ![t] = @ + 1]
  /\ clock' = clock + elapsed
  /\ should_update_rate_limit(core_rate_limit, last_update, clock')
  /\ st_last' = [op |-> "get_rate_limit_status", parity |-> 1 - st_last.parity,
                 refreshed |-> "failed",
                 status |-> status_of(core_rate_limit, search_rate_limit, clock')]
  /\ UNCHANGED <<nonStVars, buffer_requests, core_rate_limit, search_rate_limit,
                 last_update, last_request_time, lock, n_threads, wpc, frame, finished,
                 last_return>>

\* One thread has a new GitHubRateLimiter and calls wait_if_needed and
\* get_rate_limit_status in some order.
InitStatus ==
  /\ InitLimiter
  /\ n_threads = 1

NextStatus ==
  \/ \E t \in Threads : \E operation_type \in Buckets : \E elapsed \in Elapsed :
       Call(t, operation_type, elapsed)
  \/ \E t \in Threads : ShouldUpdate(t)
  \/ \E t \in Threads : UpdateBegin(t)
  \/ \E t \in Threads : UpdateOk(t)
  \/ \E t \in Threads : UpdateFails(t)
  \/ \E t \in Threads : SelectNoInfo(t)
  \/ \E t \in Threads : SelectExhausted(t)
  \/ \E t \in Threads : SelectNormal(t)
  \/ \E t \in Threads : WakeBase(t)
  \/ \E t \in Threads : WakeReset(t)
  \/ \E t \in Threads : WakeSpacing(t)
  \/ \E t \in Threads : Stamp(t)
  \/ \E t \in Threads : \E elapsed \in Elapsed : StatusFresh(t, elapsed)
  \/ \E t \in Threads : \E elapsed \in Elapsed : StatusRefreshOk(t, elapsed)
  \/ \E t \in Threads : \E elapsed \in Elapsed : StatusRefreshFails(t, elapsed)

SpecStatus == InitStatus /\ [][NextStatus]_vars

\* --------------------------- rate_limiter.py: _calculate_adaptive_delay

\* The snapshots the delay is computed for: something remains, at, just over
\* and far from the buffer, with less than 60%, between 60% and 80% and more
\* than 80% of the quota used; the reset is now, soon or up to an hour away.
DelayBuffers == {10, 100}
DelayResets == {100, 101, 105, 400, 700, 3700}
DelaySnapshots ==
  { RateLimitInfo(limit, remaining, reset_time) :
      limit \in {60, 5000},
      remaining \in {1, 10, 11, 12, 23, 24, 25, 59, 60, 100, 101, 999, 1000, 1001,
                     1999, 2000, 2001, 5000},
      reset_time \in DelayResets }

\* wait_if_needed has passed its refresh test with a fresh snapshot that has
\* something left (lines 165-171); the previous request was long ago or is
\* being made now.
InitDelay ==
  /\ DownloadIdle
  /\ RetryIdle
  /\ ClassifyIdle
  /\ CacheIdle
  /\ WalkIdle
  /\ CleanIdle
  /\ WritersIdle
  /\ StatusIdle
  /\ clock \in StartTimes
  /\ buffer_requests \in DelayBuffers
  /\ core_rate_limit \in { r \in DelaySnapshots : r.remaining <= r.limit }
  /\ search_rate_limit = core_rate_limit
  /\ last_update = clock
  /\ last_request_time \in {0, clock}
  /\ lock = 0
  /\ last_return = [core |-> 0, search |-> 0]
  /\ n_threads = 1
  /\ wpc = <<"select">>
  /\ frame = <<[NewFrame("core") EXCEPT !.stamp_at_call = last_request_time]>>
  /\ finished = <<NoFrame>>
  /\ n_calls = <<1>>

NextDelay ==
  \/ \E t \in Threads : SelectNormal(t)
  \/ \E t \in Threads : WakeSpacing(t)
  \/ \E t \in Threads : Stamp(t)

SpecDelay == InitDelay /\ [][NextDelay]_vars

\* --------------------------------------------- cache.py, called on its own

CacheKeys == {1, 2}
Shas == {"sha_now", "sha_old"}

\* The record of a call: what was asked, what was answered, and how the call
\* stands to the one before it.
CacheCall(op, key, sha, size, hit) ==
  [op |-> op, key |-> key, sha |-> sha, size |-> size, hit |-> hit,
   parity |-> 1 - ca_last.parity, files_changed |-> FALSE,
   after_add |-> ca_last.op = "add" /\ ca_last.key = key,
   repeated |-> /\ ca_last.op = op /\ ca_last.key = key /\ ca_last.sha = sha
                /\ ca_last.size = size /\ ~ca_last.files_changed]

\* add_file_to_cache(repo, path, ref, sha, size, local): the entry is set and
\* the document saved if the policy says so (lines 168-214).
AddFileToCache(key, github_sha, github_size) ==
  /\ dl_pc = "idle"
  /\ cache_data' = add_file_to_cache(cache_data, key, github_sha, github_size)
  /\ cache_file' = save_after_add(cache_data', cache_file)
  /\ ca_last' = CacheCall("add", key, github_sha, github_size, FALSE)
  /\ UNCHANGED <<nonCaVars, files>>

\* is_file_cached(repo, path, ref, sha, size, local) (lines 109-166).
IsFileCached(key, github_sha, github_size) ==
  LET r == is_file_cached(cache_data, files, key, github_sha, github_size)
  IN  /\ dl_pc = "idle"
      /\ cache_data' = r.cache_data
      /\ ca_last' = CacheCall("is_file_cached", key, github_sha, github_size, r.hit)
      /\ UNCHANGED <<nonCaVars, files, cache_file>>

\* is_file_cached whose local file is removed between exists() and stat():
\* stat raises OSError, the entry is removed, the answer is False
\* (lines 141, 154-163).
IsFileCachedFileVanishes(key, github_sha, github_size) ==
  /\ dl_pc = "idle"
  /\ key \in DOMAIN cache_data
  /\ key \in DOMAIN files
  /\ is_current(cache_data[key], github_sha, github_size)
  /\ files' = Del(files, key)
  /\ cache_data' = Del(cache_data, key)
  /\ ca_last' = CacheCall("is_file_cached", key, github_sha, github_size, FALSE)
  /\ UNCHANGED <<nonCaVars, cache_file>>

\* The local file of a key is written, or written again, by someone.
WriteFile(key, size) ==
  /\ dl_pc = "idle"
  /\ files' = Put(files, key, size)
  /\ ca_last' = [ca_last EXCEPT !.files_changed = TRUE]
  /\ UNCHANGED <<nonCaVars, cache_data, cache_file>>

\* The local file of a key is deleted by someone.
DeleteFile(key) ==
  /\ dl_pc = "idle"
  /\ key \in DOMAIN files
  /\ files' = Del(files, key)
  /\ ca_last' = [ca_last EXCEPT !.files_changed = TRUE]
  /\ UNCHANGED <<nonCaVars, cache_data, cache_file>>

\* A DownloadCache has been made where no document was: the map is empty
\* (lines 64-77, 90).
InitCache ==
  /\ DownloadIdle
  /\ RetryIdle
  /\ ClassifyIdle
  /\ LimiterIdle
  /\ WalkIdle
  /\ CleanIdle
  /\ WritersIdle
  /\ StatusIdle
  /\ CacheIdle

NextCache ==
  \/ \E key \in CacheKeys : \E sha \in Shas : \E size \in Sizes :
       AddFileToCache(key, sha, size)
  \/ \E key \in CacheKeys : \E sha \in Shas : \E size \in Sizes :
       IsFileCached(key, sha, size)
  \/ \E key \in CacheKeys : \E sha \in Shas : \E size \in Sizes :
       IsFileCachedFileVanishes(key, sha, size)
  \/ \E key \in CacheKeys : \E size \in Sizes : WriteFile(key, size)
  \/ \E key \in CacheKeys : DeleteFile(key)

SpecCache == InitCache /\ [][NextCache]_vars

\* ------------------------------- cache.py: add_file_to_cache by its names

Repos == {"o/r"}
Refs == {"main"}
Paths == {"a", "b", "c", "d", "e"}

\* DownloadCache._get_cache_key (lines 105-107): the three names with a colon
\* between them.
get_cache_key(repo_full_name, file_path, ref) ==
  <<repo_full_name, ":", ref, ":", file_path>>

\* add_file_to_cache(repo_full_name, file_path, ref, github_sha, github_size,
\* ...) (lines 168-214).
AddFileByName(repo_full_name, file_path, ref, github_sha, github_size) ==
  AddFileToCache(get_cache_key(repo_full_name, file_path, ref), github_sha, github_size)

\* A DownloadCache has loaded the document an earlier session left: entries
\* for some of the files, written for their older content.
InitAdd ==
  /\ download_tasks = <<>>
  /\ max_concurrent_downloads = 1
  /\ use_cache = FALSE
  /\ verify_integrity = FALSE
  /\ semaphore = 1
  /\ pc = <<>>
  /\ cache_hit = <<>>
  /\ response_status = <<>>
  /\ raised = <<>>
  /\ total_downloaded = <<>>
  /\ integrity_verified = <<>>
  /\ fetches = <<>>
  /\ gathered = <<>>
  /\ \E K \in SUBSET { get_cache_key(repo, path, ref) :
                          repo \in Repos, path \in Paths, ref \in Refs } :
       cache_data = [k \in K |-> CacheEntry("sha_old", 0)]
  /\ files = <<>>
  /\ cache_file = cache_data
  /\ processed_results = <<>>
  /\ stats = Stats0
  /\ dl_pc = "idle"
  /\ RetryIdle
  /\ ClassifyIdle
  /\ LimiterIdle
  /\ WalkIdle
  /\ CleanIdle
  /\ WritersIdle
  /\ StatusIdle
  /\ CacheIdle

NextAdd ==
  \E repo \in Repos : \E path \in Paths : \E ref \in Refs :
    AddFileByName(repo, path, ref, "sha_now", 1)

SpecAdd == InitAdd /\ [][NextAdd]_vars

\* ------------------------------- cache.py: add_file_to_cache, key after key

\* The keys a session adds, each once.
MaxGrow == 10
GrowKeys == 1 .. MaxGrow

\* add_file_to_cache for a key the map does not hold (lines 168-214).
GrowAdd(key) ==
  /\ key \notin DOMAIN cache_data
  /\ AddFileToCache(key, "sha_now", 1)

\* The entries of the map that the document does not hold as they are.
Unsaved(cd, document) ==
  { k \in DOMAIN cd : k \notin DOMAIN document \/ document[k] # cd[k] }

NextGrow == \E key \in GrowKeys : GrowAdd(key)

SpecGrow == InitCache /\ [][NextGrow]_vars

\* -------------------------------------- cache.py: loading the document

\* A JSON value that is not an object, by its type and by what it is: json.load
\* gives a str for a string, an int or a float for a number, None for null.
Json(type, value) == [type |-> type, fields |-> <<>>, value |-> value]

\* Some JSON value of the type.
JsonValue(type) == Json(type, "any")

\* A JSON object with the given members: json.load gives a dict.
JsonObject(fields) == [type |-> "object", fields |-> fields, value |-> "any"]

\* The keys from_dict reads with data[...], in the order it reads them.
RequiredKeys == <<"file_path", "sha", "size", "last_modified", "download_time">>

\* An entry as to_dict writes it.
SavedEntry ==
  JsonObject([file_path |-> JsonValue("string"), sha |-> JsonValue("string"),
              size |-> JsonValue("number"), last_modified |-> JsonValue("string"),
              download_time |-> JsonValue("number"), checksums |-> JsonObject(<<>>)])

\* The values a member of the document may have: entries as saved, without
\* checksums, without the hash, with a string for the size, and values that
\* are no objects.
MemberValues ==
  { SavedEntry,
    JsonObject([k \in DOMAIN SavedEntry.fields \ {"checksums"} |-> SavedEntry.fields[k]]),
    JsonObject([k \in DOMAIN SavedEntry.fields \ {"sha"} |-> SavedEntry.fields[k]]),
    JsonObject([SavedEntry.fields EXCEPT !["size"] = JsonValue("string")]),
    JsonValue("number"), JsonValue("string"), JsonValue("list"), JsonValue("null") }

MaxMembers == 2

\* What may be at the path of the cache document: nothing, a file that cannot
\* be opened, text that is no JSON, a JSON value that is no object, an object
\* with some members in the order of the text.
Documents ==
  { [kind |-> "missing"], [kind |-> "unreadable"], [kind |-> "text"] }
  \cup { [kind |-> "json", value |-> JsonValue(type)] :
           type \in {"list", "number", "string", "null"} }
  \cup { [kind |-> "json", value |-> [type |-> "object", members |-> members]] :
           members \in UNION { [1 .. n -> MemberValues] : n \in 0 .. MaxMembers } }

\* CacheEntry.from_dict (lines 45-54): data[key] of a value that is no object
\* raises TypeError, of an object without the key KeyError; nothing looks at
\* the types of the values.
from_dict(data) ==
  IF data.type # "object" THEN [raised |-> "TypeError", entry |-> <<>>]
  ELSE IF \E i \in DOMAIN RequiredKeys : RequiredKeys[i] \notin DOMAIN data.fields
    THEN [raised |-> "KeyError", entry |-> <<>>]
  ELSE [raised |-> "none",
        entry |-> [k \in DOMAIN data.fields \cup {"checksums"} |->
                     IF k \in DOMAIN data.fields THEN data.fields[k] ELSE JsonObject(<<>>)]]

\* The comprehension of lines 85-87 over the members from the i-th on: the
\* first exception, or the entries.
RECURSIVE entries_from(_, _)
entries_from(members, i) ==
  IF i > Len(members) THEN [raised |-> "none", cache_data |-> <<>>]
  ELSE LET first == from_dict(members[i])
           rest == entries_from(members, i + 1)
       IN  IF first.raised # "none" THEN [raised |-> first.raised, cache_data |-> <<>>]
           ELSE IF rest.raised # "none" THEN rest
           ELSE [raised |-> "none", cache_data |-> <<first.entry>> \o rest.cache_data]

\* What the try block of _load_cache does (lines 81-90).
try_load(document) ==
  CASE document.kind = "missing" -> [raised |-> "none", cache_data |-> <<>>]
    [] document.kind = "unreadable" -> [raised |-> "PermissionError", cache_data |-> <<>>]
    [] document.kind = "text" -> [raised |-> "JSONDecodeError", cache_data |-> <<>>]
    [] OTHER ->
         IF document.value.type # "object"
           THEN [raised |-> "AttributeError", cache_data |-> <<>>]
           ELSE entries_from(document.value.members, 1)

\* The classes the except clause of line 91 names.
LoadCaught == {"JSONDecodeError", "KeyError", "ValueError", "OSError", "IOError"}

\* DownloadCache._load_cache: what it raises and the map it leaves.
load_cache(document) ==
  LET r == try_load(document)
  IN  IF r.raised # "none" /\ isinstance(Error(r.raised, 0, <<>>), LoadCaught)
        THEN [raised |-> "none", cache_data |-> <<>>]
        ELSE r

\* DownloadCache.__init__ runs _load_cache and returns (lines 64-77).
Construct ==
  /\ ld_pc = "constructing"
  /\ load_cache(ld_document).raised = "none"
  /\ ld_cache_data' = load_cache(ld_document).cache_data
  /\ ld_pc' = "constructed"
  /\ UNCHANGED <<nonLdVars, ld_document, ld_raised, sv_cache_data>>

\* _load_cache raises and so does DownloadCache.__init__.
ConstructRaises ==
  /\ ld_pc = "constructing"
  /\ load_cache(ld_document).raised # "none"
  /\ ld_raised' = load_cache(ld_document).raised
  /\ ld_pc' = "raised"
  /\ UNCHANGED <<nonLdVars, ld_document, ld_cache_data, sv_cache_data>>

\* DownloadCache(cache_dir) is called over some document.
InitLoad ==
  /\ DownloadIdle
  /\ RetryIdle
  /\ ClassifyIdle
  /\ LimiterIdle
  /\ WalkIdle
  /\ CleanIdle
  /\ WritersIdle
  /\ StatusIdle
  /\ ca_last = [op |-> "none", key |-> 0, sha |-> "", size |-> 0, hit |-> FALSE,
                parity |-> 0, files_changed |-> FALSE, after_add |-> FALSE,
                repeated |-> FALSE]
  /\ ld_document \in Documents
  /\ ld_pc = "constructing"
  /\ ld_raised = "none"
  /\ ld_cache_data = <<>>
  /\ sv_cache_data = <<>>

NextLoad ==
  \/ Construct
  \/ ConstructRaises

SpecLoad == InitLoad /\ [][NextLoad]_vars

\* --------------------------------- cache.py: saving and loading again

MaxEntries == 2

\* CacheEntry.__init__ (lines 17-31): the six fields, with {} for checksums
\* that are None or empty.
CacheEntry_init(file_path, sha, size, last_modified, download_time, checksums) ==
  [file_path |-> file_path, sha |-> sha, size |-> size,
   last_modified |-> last_modified, download_time |-> download_time,
   checksums |-> IF checksums.type = "null" \/ checksums.fields = <<>>
                   THEN JsonObject(<<>>) ELSE checksums]

\* The entries add_file_to_cache makes: a str for the path, the hash and the
\* modification time, an int for the size, a float for time.time(), and for
\* the checksums None, {} or a dict of one digest.
MemoryEntries ==
  { CacheEntry_init(Json("string", "a.txt"), Json("string", sha), Json("number", size),
                    Json("string", "2025-01-01T00:00:00"), Json("number", 1700000000),
                    checksums) :
      sha \in Shas, size \in Sizes,
      checksums \in { JsonValue("null"), JsonObject(<<>>),
                       JsonObject([sha256 |-> Json("string", "ab")]) } }

\* The maps a cache may hold when it saves: the i-th entry is the one under
\* the i-th key, in the order of insertion, which json.dump and json.load keep.
SavedCaches == UNION { [1 .. n -> MemoryEntries] : n \in 0 .. MaxEntries }

to_dict_without_checksums(entry) ==
  JsonObject([file_path |-> entry.file_path, sha |-> entry.sha, size |-> entry.size,
              last_modified |-> entry.last_modified,
              download_time |-> entry.download_time])

\* CacheEntry.to_dict (lines 33-42).
to_dict(entry) ==
  JsonObject([file_path |-> entry.file_path, sha |-> entry.sha, size |-> entry.size,
              last_modified |-> entry.last_modified,
              download_time |-> entry.download_time, checksums |-> entry.checksums])

\* The document _save_cache writes (lines 98-100): one member for each key,
\* the entry's to_dict.
dump_cache(cd) ==
  [kind |-> "json",
   value |-> [type |-> "object", members |-> [i \in DOMAIN cd |-> to_dict(cd[i])]]]

\* _save_cache writes the document.
SaveCache ==
  /\ ld_pc = "saving"
  /\ ld_document' = dump_cache(sv_cache_data)
  /\ ld_pc' = "constructing"
  /\ UNCHANGED <<nonLdVars, ld_raised, ld_cache_data, sv_cache_data>>

\* open or the write raises OSError, which _save_cache logs (lines 102-103):
\* the document is as it was, or cut short.
SaveCacheFails ==
  /\ ld_pc = "saving"
  /\ ld_document' \in {ld_document, [kind |-> "text"]}
  /\ ld_pc' = "constructing"
  /\ UNCHANGED <<nonLdVars, ld_raised, ld_cache_data, sv_cache_data>>

\* A cache over a new directory holds some entries and saves; then a new
\* DownloadCache is made over the same directory.
InitRoundTrip ==
  /\ DownloadIdle
  /\ RetryIdle
  /\ ClassifyIdle
  /\ LimiterIdle
  /\ WalkIdle
  /\ CleanIdle
  /\ WritersIdle
  /\ StatusIdle
  /\ ca_last = [op |-> "none", key |-> 0, sha |-> "", size |-> 0, hit |-> FALSE,
                parity |-> 0, files_changed |-> FALSE, after_add |-> FALSE,
                repeated |-> FALSE]
  /\ sv_cache_data \in SavedCaches
  /\ ld_document = [kind |-> "missing"]
  /\ ld_pc = "saving"
  /\ ld_raised = "none"
  /\ ld_cache_data = <<>>

\* Loading raises for none of these documents, so ConstructRaises has no step.
NextRoundTrip ==
  \/ SaveCache
  \/ SaveCacheFails
  \/ Construct

SpecRoundTrip == InitRoundTrip /\ [][NextRoundTrip]_vars

\* ------------------------------------------------- cache.py: clean_cache

\* time.time() at the call, in seconds: two days after the oldest download of
\* DownloadTimes and a second, or that much and one more second.
CurrentTimes == {1700000000 + 2 * 86400 + 1, 1700000000 + 2 * 86400 + 2}

\* The download_time of the entries: two days and a second, two days, one
\* day and nothing before the first of CurrentTimes.
DownloadTimes == {1700000000, 1700000001, 1700000001 + 86400, 1700000001 + 2 * 86400}

MaxAgeDays == {0, 1, 2, 30}

\* The entries of the cache clean_cache is called on.
CleanEntries ==
  { CacheEntry_init(Json("string", "a.txt"), Json("string", "sha_now"), Json("number", 1),
                    Json("string", "2025-01-01T00:00:00"), Json("number", t),
                    JsonValue("null")) : t \in DownloadTimes }

\* A cleaning that takes an entry to be old from max_age_days on.
clean_cache_from_max_age(cd, current_time, max_age_days) ==
  LET max_age_seconds == max_age_days * 24 * 60 * 60
      keys_to_remove ==
        { key \in DOMAIN cd : current_time - cd[key].download_time.value >= max_age_seconds }
  IN  [cache_data |-> [key \in DOMAIN cd \ keys_to_remove |-> cd[key]],
       keys_to_remove |-> keys_to_remove,
       returned |-> Cardinality(keys_to_remove)]

\* DownloadCache.clean_cache (lines 230-256) up to the save: the keys whose
\* age is more than max_age_seconds, the map without them, and their number.
clean_cache(cd, current_time, max_age_days) ==
  LET max_age_seconds == max_age_days * 24 * 60 * 60
      keys_to_remove ==
        { key \in DOMAIN cd : current_time - cd[key].download_time.value > max_age_seconds }
  IN  [cache_data |-> [key \in DOMAIN cd \ keys_to_remove |-> cd[key]],
       keys_to_remove |-> keys_to_remove,
       returned |-> Cardinality(keys_to_remove)]

\* clean_cache is called and _save_cache, where it is called (lines 252-253),
\* writes the document.
CleanCache ==
  /\ ld_pc = "idle"
  /\ \E max_age_days \in MaxAgeDays, current_time \in CurrentTimes :
       LET r == clean_cache(sv_cache_data, current_time, max_age_days)
       IN  /\ sv_cache_data' = r.cache_data
           /\ ld_document' = IF r.keys_to_remove # {}
                                THEN dump_cache(r.cache_data) ELSE ld_document
           /\ cn_last' = [op |-> "clean_cache", max_age_days |-> max_age_days,
                          current_time |-> current_time, before |-> sv_cache_data,
                          document |-> ld_document, returned |-> r.returned,
                          saved |-> IF r.keys_to_remove # {} THEN "written" ELSE "none"]
  /\ UNCHANGED <<nonCnVars, ld_pc, ld_raised, ld_cache_data>>

\* clean_cache is called, it removes some entry, and open or the write in
\* _save_cache raises OSError, which _save_cache logs (cache.py lines
\* 102-103): the document is as it was, or cut short.
CleanCacheSaveFails ==
  /\ ld_pc = "idle"
  /\ \E max_age_days \in MaxAgeDays, current_time \in CurrentTimes :
       LET r == clean_cache(sv_cache_data, current_time, max_age_days)
       IN  /\ r.keys_to_remove # {}
           /\ sv_cache_data' = r.cache_data
           /\ ld_document' \in {ld_document, [kind |-> "text"]}
           /\ cn_last' = [op |-> "clean_cache", max_age_days |-> max_age_days,
                          current_time |-> current_time, before |-> sv_cache_data,
                          document |-> ld_document, returned |-> r.returned,
                          saved |-> "failed"]
  /\ UNCHANGED <<nonCnVars, ld_pc, ld_raised, ld_cache_data>>

\* A cache holds some entries of several ages, and its document is the one
\* its last save wrote.
InitClean ==
  /\ DownloadIdle
  /\ RetryIdle
  /\ ClassifyIdle
  /\ LimiterIdle
  /\ WalkIdle
  /\ CleanIdle
  /\ WritersIdle
  /\ StatusIdle
  /\ ca_last = [op |-> "none", key |-> 0, sha |-> "", size |-> 0, hit |-> FALSE,
                parity |-> 0, files_changed |-> FALSE, after_add |-> FALSE,
                repeated |-> FALSE]
  /\ \E n \in 0 .. MaxEntries : sv_cache_data \in [1 .. n -> CleanEntries]
  /\ ld_document = dump_cache(sv_cache_data)
  /\ ld_pc = "idle"
  /\ ld_raised = "none"
  /\ ld_cache_data = <<>>

NextClean ==
  \/ CleanCache
  \/ CleanCacheSaveFails

SpecClean == InitClean /\ [][NextClean]_vars

\* ------------------- parallel_downloader.py: the threads of _add_to_cache

\* Each _add_to_cache makes its own ThreadPoolExecutor(max_workers=1) (lines
\* 371-373), so each finished task has its own thread in add_file_to_cache;
\* neither the downloader nor the cache takes a lock.
MaxWriters == 2
MaxPrior == 2

Writers == 1 .. MaxWriters

\* The key of the task thread w caches; the keys 1 .. MaxPrior are those of
\* the entries the cache held before.
WriterKey(w) == MaxPrior + w

\* One item of the dict, and what _save_cache makes of it.
Member(key) == [kind |-> "member", key |-> key]
EndOfDocument == [kind |-> "end", key |-> 0]
Hole == [kind |-> "hole", key |-> 0]

\* What json.dump writes for data: its members and the closing brace.
document_of(data) == Append(data, EndOfDocument)

\* The file after a file object at offset has written chunks: the chunks
\* over what was there, after zero bytes if the file ended before offset.
write_at(file, offset, chunks) ==
  LET last == offset + Len(chunks)
      n == IF Len(file) > last THEN Len(file) ELSE last
  IN  [i \in 1 .. n |->
         IF i > offset /\ i <= last THEN chunks[i - offset]
         ELSE IF i <= Len(file) THEN file[i]
         ELSE Hole]

\* cache.py line 208: self.cache_data[cache_key] = cache_entry, one bytecode.
WriterInsert(w) ==
  /\ tw_pc[w] = "start"
  /\ tw_cache_data' = Append(tw_cache_data, Member(WriterKey(w)))
  /\ tw_history' = tw_history \cup {tw_cache_data'}
  /\ tw_pc' = [tw_pc EXCEPT ![w] = "inserted"]
  /\ UNCHANGED <<nonTwVars, tw_file, tw_iter, tw_data, tw_offset>>

\* cache.py lines 213-214: the length decides whether _save_cache is called;
\* line 98 then makes the iterator of cache_data.items(), which notes the
\* number of items.
WriterCheckLen(w) ==
  /\ tw_pc[w] = "inserted"
  /\ IF save_policy(Len(tw_cache_data))
       THEN /\ tw_pc' = [tw_pc EXCEPT ![w] = "iterating"]
            /\ tw_iter' = [tw_iter EXCEPT ![w] = [used |-> Len(tw_cache_data), pos |-> 1]]
            /\ tw_data' = [tw_data EXCEPT ![w] = <<>>]
       ELSE /\ tw_pc' = [tw_pc EXCEPT ![w] = "done"]
            /\ UNCHANGED <<tw_iter, tw_data>>
  /\ UNCHANGED <<nonTwVars, tw_cache_data, tw_file, tw_offset, tw_history>>

\* cache.py line 98, one turn of the comprehension: the next item goes into
\* data, or the iterator is exhausted and line 99 is next.
WriterIterate(w) ==
  /\ tw_pc[w] = "iterating"
  /\ Len(tw_cache_data) = tw_iter[w].used
  /\ IF tw_iter[w].pos <= Len(tw_cache_data)
       THEN /\ tw_data' = [tw_data EXCEPT ![w] = Append(@, tw_cache_data[tw_iter[w].pos])]
            /\ tw_iter' = [tw_iter EXCEPT ![w].pos = @ + 1]
            /\ UNCHANGED tw_pc
       ELSE /\ tw_pc' = [tw_pc EXCEPT ![w] = "opening"]
            /\ UNCHANGED <<tw_iter, tw_data>>
  /\ UNCHANGED <<nonTwVars, tw_cache_data, tw_file, tw_offset, tw_history>>

\* cache.py line 98: the dict has another number of items than when the
\* iterator was made, and next() raises RuntimeError, which neither
\* _save_cache (line 102) nor add_to_cache (parallel_downloader.py line 367)
\* catches.
WriterIterateRaises(w) ==
  /\ tw_pc[w] = "iterating"
  /\ Len(tw_cache_data) # tw_iter[w].used
  /\ tw_pc' = [tw_pc EXCEPT ![w] = "RuntimeError"]
  /\ UNCHANGED <<nonTwVars, tw_cache_data, tw_file, tw_iter, tw_data, tw_offset,
                 tw_history>>

\* cache.py line 99: open(self.cache_file, "w") truncates the file.
WriterOpen(w) ==
  /\ tw_pc[w] = "opening"
  /\ tw_file' = <<>>
  /\ tw_offset' = [tw_offset EXCEPT ![w] = 0]
  /\ tw_pc' = [tw_pc EXCEPT ![w] = "writing"]
  /\ UNCHANGED <<nonTwVars, tw_cache_data, tw_iter, tw_data, tw_history>>

\* cache.py lines 99, 102-103: open raises OSError, which _save_cache logs.
WriterOpenFails(w) ==
  /\ tw_pc[w] = "opening"
  /\ tw_pc' = [tw_pc EXCEPT ![w] = "done"]
  /\ UNCHANGED <<nonTwVars, tw_cache_data, tw_file, tw_iter, tw_data, tw_offset,
                 tw_history>>

\* cache.py line 100: the file object flushes some of what json.dump has
\* written and is not in the file yet; after the last of it the with
\* statement closes the file.
WriterWrite(w) ==
  /\ tw_pc[w] = "writing"
  /\ LET doc == document_of(tw_data[w])
     IN  \E upto \in tw_offset[w] + 1 .. Len(doc) :
           /\ tw_file' = write_at(tw_file, tw_offset[w],
                                  SubSeq(doc, tw_offset[w] + 1, upto))
           /\ tw_offset' = [tw_offset EXCEPT ![w] = upto]
           /\ tw_pc' = [tw_pc EXCEPT ![w] = IF upto = Len(doc) THEN "done" ELSE "writing"]
  /\ UNCHANGED <<nonTwVars, tw_cache_data, tw_iter, tw_data, tw_history>>

\* Several downloads have finished at the same time and each has its thread
\* at the start of add_file_to_cache; the cache holds the entries of an
\* earlier save, which are in the file.
InitWriters ==
  /\ DownloadIdle
  /\ RetryIdle
  /\ ClassifyIdle
  /\ LimiterIdle
  /\ WalkIdle
  /\ CleanIdle
  /\ CacheIdle
  /\ StatusIdle
  /\ \E n \in 0 .. MaxPrior : tw_cache_data = [i \in 1 .. n |-> Member(i)]
  /\ tw_file = document_of(tw_cache_data)
  /\ tw_pc = [w \in Writers |-> "start"]
  /\ tw_iter = [w \in Writers |-> [used |-> 0, pos |-> 1]]
  /\ tw_data = [w \in Writers |-> <<>>]
  /\ tw_offset = [w \in Writers |-> 0]
  /\ tw_history = {tw_cache_data}

NextWriters ==
  \/ \E w \in Writers : WriterInsert(w)
  \/ \E w \in Writers : WriterCheckLen(w)
  \/ \E w \in Writers : WriterIterate(w)
  \/ \E w \in Writers : WriterIterateRaises(w)
  \/ \E w \in Writers : WriterOpen(w)
  \/ \E w \in Writers : WriterOpenFails(w)
  \/ \E w \in Writers : WriterWrite(w)

SpecWriters == InitWriters /\ [][NextWriters]_vars

\* ---------------------------------------- main.py: download_folder_parallel

\* The remote tree under path at the commit: the root holds the directory a,
\* the file f and the directory b; a holds a/x; b holds the empty directory
\* b/c and the file b/y.
Dirs == {"root", "a", "b", "b/c"}
Files == {"f", "a/x", "b/y"}

ContentDir(path) == [type |-> "dir", path |-> path]
ContentFile(path) == [type |-> "file", path |-> path]

\* repository.get_dir_contents(current_path, ref=sha), when it returns.
get_dir_contents(current_path) ==
  CASE current_path = "root" -> <<ContentDir("a"), ContentFile("f"), ContentDir("b")>>
    [] current_path = "a" -> <<ContentFile("a/x")>>
    [] current_path = "b" -> <<ContentDir("b/c"), ContentFile("b/y")>>
    [] OTHER -> <<>>

\* The directories on the way from the root down to a path, the path's own
\* directory last.
ParentDirs(path) ==
  CASE path \in {"a", "f", "b"} -> {"root"}
    [] path = "a/x" -> {"root", "a"}
    [] path \in {"b/c", "b/y"} -> {"root", "b"}
    [] OTHER -> {}

\* What every attempt to list a directory may raise: nothing, a network
\* error, 404 from GitHub.
ListingErrors ==
  { NoException,
    Error("ConnectionError", 0, <<"Network", "error">>),
    Error("GithubException", 404, <<"Not", "Found">>) }

\* What get_contents of a file does: it returns a ContentFile with or without
\* a download_url, or every attempt raises.
FileReplies ==
  { [error |-> NoException, download_url |-> TRUE],
    [error |-> NoException, download_url |-> FALSE],
    [error |-> Error("GithubException", 404, <<"Not", "Found">>), download_url |-> FALSE] }

\* What retry_api_call raises when every attempt of the call raises e
\* (retry.py lines 87-132, 297-303): nothing when the call returns, e itself
\* at once when e is not retryable, RetryError after the last attempt.
retry_api_call(e) ==
  IF e = NoException THEN NoException
  ELSE IF is_retryable(e) THEN RetryError
  ELSE e

\* A running call collect_tasks(current_path, ...): contents once listed, and
\* how many of them the loop has gone through.
WalkFrame(current_path) ==
  [current_path |-> current_path, listed |-> FALSE, contents |-> <<>>, i |-> 0]

Top == wk_stack[Len(wk_stack)]
Pop == SubSeq(wk_stack, 1, Len(wk_stack) - 1)

\* Preflight without the rmtree: an existing destination is kept under force.
PreflightKeepingDestination ==
  /\ wk_pc = "start"
  /\ IF dest # "absent" /\ ~force
       THEN /\ wk_log' = Append(wk_log, "Output folder already exists")
            /\ wk_pc' = "returned"
            /\ wk_result' = "zero_stats"
            /\ UNCHANGED wk_stack
       ELSE /\ wk_stack' = <<WalkFrame("root")>>
            /\ wk_pc' = "walking"
            /\ UNCHANGED <<wk_log, wk_result>>
  /\ UNCHANGED <<nonWkVars, filter_config, force, dest, listing_error, file_reply,
                 wk_download_tasks, wk_dirs, wk_listed, wk_raised, wk_removed>>

\* Lines 515-527 and 590: the destination exists and force is off, so the
\* error is logged and zero statistics are returned; otherwise an existing
\* destination is removed, the directory is made and collect_tasks is called.
Preflight ==
  /\ wk_pc = "start"
  /\ IF dest # "absent" /\ ~force
       THEN /\ wk_log' = Append(wk_log, "Output folder already exists")
            /\ wk_pc' = "returned"
            /\ wk_result' = "zero_stats"
            /\ UNCHANGED <<dest, wk_stack>>
       ELSE /\ dest' = "new"
            /\ wk_stack' = <<WalkFrame("root")>>
            /\ wk_pc' = "walking"
            /\ UNCHANGED <<wk_log, wk_result>>
  /\ wk_removed' = IF dest # "absent" /\ force THEN wk_removed \cup {"root"} ELSE wk_removed
  /\ UNCHANGED <<nonWkVars, filter_config, force, listing_error, file_reply, wk_download_tasks,
                 wk_dirs, wk_listed, wk_raised>>

\* Lines 541-544: the listing is obtained.
ListDir ==
  /\ wk_pc = "walking" /\ wk_stack # <<>> /\ ~Top.listed
  /\ retry_api_call(listing_error[Top.current_path]) = NoException
  /\ wk_listed' = Append(wk_listed, Top.current_path)
  /\ wk_stack' = [wk_stack EXCEPT ![Len(wk_stack)] =
                     [@ EXCEPT !.listed = TRUE,
                               !.contents = get_dir_contents(Top.current_path)]]
  /\ UNCHANGED <<nonWkVars, filter_config, wk_removed, force, dest, listing_error, file_reply,
                 wk_download_tasks, wk_dirs, wk_log, wk_pc, wk_raised, wk_result>>

\* Lines 545-547: retry_api_call raises RetryError, which is logged, and this
\* call of collect_tasks returns.
ListDirExhausted ==
  /\ wk_pc = "walking" /\ wk_stack # <<>> /\ ~Top.listed
  /\ retry_api_call(listing_error[Top.current_path]) = RetryError
  /\ wk_listed' = Append(wk_listed, Top.current_path)
  /\ wk_log' = Append(wk_log, "Failed to get directory contents")
  /\ wk_stack' = Pop
  /\ UNCHANGED <<nonWkVars, filter_config, wk_removed, force, dest, listing_error, file_reply,
                 wk_download_tasks, wk_dirs, wk_pc, wk_raised, wk_result>>

\* retry_api_call raises another exception: no handler of collect_tasks or
\* of download_folder_parallel takes it, so every running call ends with it.
ListDirRaises ==
  /\ wk_pc = "walking" /\ wk_stack # <<>> /\ ~Top.listed
  /\ retry_api_call(listing_error[Top.current_path]) \notin {NoException, RetryError}
  /\ wk_listed' = Append(wk_listed, Top.current_path)
  /\ wk_raised' = retry_api_call(listing_error[Top.current_path])
  /\ wk_stack' = <<>>
  /\ wk_pc' = "raised"
  /\ UNCHANGED <<nonWkVars, filter_config, wk_removed, force, dest, listing_error, file_reply,
                 wk_download_tasks, wk_dirs, wk_log, wk_result>>

\* Lines 552-556: the next content is a directory; it is made locally and
\* collect_tasks is called for it.
VisitDir ==
  /\ wk_pc = "walking" /\ wk_stack # <<>> /\ Top.listed /\ Top.i < Len(Top.contents)
  /\ LET content == Top.contents[Top.i + 1]
     IN  /\ content.type = "dir"
         /\ wk_dirs' = wk_dirs \cup {content.path}
         /\ wk_stack' = Append([wk_stack EXCEPT ![Len(wk_stack)].i = @ + 1],
                               WalkFrame(content.path))
  /\ UNCHANGED <<nonWkVars, filter_config, wk_removed, force, dest, listing_error, file_reply,
                 wk_download_tasks, wk_listed, wk_log, wk_pc, wk_raised, wk_result>>

\* Lines 557-587: the next content is a file; its task is appended when
\* get_contents gives a download_url, and any exception is logged.
VisitFile ==
  /\ wk_pc = "walking" /\ wk_stack # <<>> /\ Top.listed /\ Top.i < Len(Top.contents)
  /\ LET content == Top.contents[Top.i + 1]
         reply == file_reply[content.path]
     IN  /\ content.type = "file"
         /\ IF retry_api_call(reply.error) # NoException
              THEN /\ wk_log' = Append(wk_log, "Failed to get file content")
                   /\ UNCHANGED wk_download_tasks
              ELSE /\ wk_download_tasks' =
                        IF reply.download_url THEN Append(wk_download_tasks, content.path)
                        ELSE wk_download_tasks
                   /\ UNCHANGED wk_log
  /\ wk_stack' = [wk_stack EXCEPT ![Len(wk_stack)].i = @ + 1]
  /\ UNCHANGED <<nonWkVars, filter_config, wk_removed, force, dest, listing_error, file_reply,
                 wk_dirs, wk_listed, wk_pc, wk_raised, wk_result>>

\* The loop of lines 549-587 is over and this call of collect_tasks returns.
ReturnFromCollect ==
  /\ wk_pc = "walking" /\ wk_stack # <<>> /\ Top.listed /\ Top.i = Len(Top.contents)
  /\ wk_stack' = Pop
  /\ UNCHANGED <<nonWkVars, filter_config, wk_removed, force, dest, listing_error, file_reply,
                 wk_download_tasks, wk_dirs, wk_listed, wk_log, wk_pc, wk_raised,
                 wk_result>>

\* Lines 592-626: without tasks zero statistics are returned; otherwise the
\* tasks are given to download_files and its statistics are returned.
AfterCollect ==
  /\ wk_pc = "walking" /\ wk_stack = <<>>
  /\ wk_result' = IF wk_download_tasks = <<>> THEN "zero_stats" ELSE "stats"
  /\ wk_pc' = "returned"
  /\ UNCHANGED <<nonWkVars, filter_config, wk_removed, force, dest, listing_error, file_reply, wk_stack,
                 wk_download_tasks, wk_dirs, wk_listed, wk_log, wk_raised>>

\* download_folder_parallel is called: the destination is there or not, and
\* GitHub answers each request in some way.
InitWalk ==
  /\ DownloadIdle
  /\ RetryIdle
  /\ ClassifyIdle
  /\ LimiterIdle
  /\ CacheIdle
  /\ CleanIdle
  /\ WritersIdle
  /\ StatusIdle
  /\ force \in BOOLEAN
  /\ dest \in {"absent", "old"}
  /\ listing_error \in [Dirs -> ListingErrors]
  /\ file_reply \in [Files -> FileReplies]
  /\ wk_stack = <<>>
  /\ wk_download_tasks = <<>>
  /\ wk_dirs = {}
  /\ wk_listed = <<>>
  /\ wk_log = <<>>
  /\ wk_pc = "start"
  /\ wk_raised = NoException
  /\ wk_result = "none"
  /\ wk_removed = {}
  /\ filter_config = [include_patterns |-> {}, exclude_patterns |-> {}]

NextWalk ==
  \/ Preflight
  \/ ListDir
  \/ ListDirExhausted
  \/ ListDirRaises
  \/ VisitDir
  \/ VisitFile
  \/ ReturnFromCollect
  \/ AfterCollect

SpecWalk == InitWalk /\ [][NextWalk]_vars

\* ------------------------------------- core.py: download_folder (sequential)

\* The directories of the remote tree at or under a path.
Subtree(path) ==
  CASE path = "root" -> Dirs
    [] path = "b" -> {"b", "b/c"}
    [] OTHER -> {path}

\* Lines 358-375, 330-341 with force off: the next content is a directory;
\* makedirs makes it, download_folder is called for it, finds it there, logs
\* the error and returns its zero statistics.
SeqVisitDirRefused ==
  /\ wk_pc = "walking" /\ wk_stack # <<>> /\ Top.listed /\ Top.i < Len(Top.contents)
  /\ ~force
  /\ LET content == Top.contents[Top.i + 1]
     IN  /\ content.type = "dir"
         /\ wk_dirs' = wk_dirs \cup {content.path}
  /\ wk_log' = Append(wk_log, "Output folder already exists")
  /\ wk_stack' = [wk_stack EXCEPT ![Len(wk_stack)].i = @ + 1]
  /\ UNCHANGED <<nonWkVars, filter_config, wk_removed, force, dest, listing_error, file_reply,
                 wk_download_tasks, wk_listed, wk_pc, wk_raised, wk_result>>

\* Lines 358-375, 330-341 with force on: the next content is a directory;
\* makedirs makes it, download_folder is called for it, finds it there,
\* removes it with rmtree, makes it again and goes on to its listing.
SeqVisitDirEntered ==
  /\ wk_pc = "walking" /\ wk_stack # <<>> /\ Top.listed /\ Top.i < Len(Top.contents)
  /\ force
  /\ LET content == Top.contents[Top.i + 1]
     IN  /\ content.type = "dir"
         /\ wk_removed' = wk_removed \cup {content.path}
         /\ wk_dirs' = (wk_dirs \ Subtree(content.path)) \cup {content.path}
         /\ wk_stack' = Append([wk_stack EXCEPT ![Len(wk_stack)].i = @ + 1],
                               WalkFrame(content.path))
  /\ UNCHANGED <<nonWkVars, filter_config, force, dest, listing_error, file_reply,
                 wk_download_tasks, wk_listed, wk_log, wk_pc, wk_raised, wk_result>>

\* Lines 376-392, 399-470: the next content is a file and
\* download_file_with_verification is called: get_contents raises or gives no
\* download_url, or the download fails after its retries, and False is
\* returned; or the file is downloaded.
SeqVisitFile ==
  /\ wk_pc = "walking" /\ wk_stack # <<>> /\ Top.listed /\ Top.i < Len(Top.contents)
  /\ LET content == Top.contents[Top.i + 1]
         reply == file_reply[content.path]
     IN  /\ content.type = "file"
         /\ \E downloaded \in BOOLEAN :
              IF reply.error # NoException
                THEN /\ wk_log' = Append(wk_log, "Failed to get file content")
                     /\ UNCHANGED wk_download_tasks
              ELSE IF ~reply.download_url
                THEN UNCHANGED <<wk_log, wk_download_tasks>>
              ELSE IF ~downloaded
                THEN /\ wk_log' = Append(wk_log, "Download failed after retries")
                     /\ UNCHANGED wk_download_tasks
              ELSE /\ wk_download_tasks' = Append(wk_download_tasks, content.path)
                   /\ UNCHANGED wk_log
  /\ wk_stack' = [wk_stack EXCEPT ![Len(wk_stack)].i = @ + 1]
  /\ UNCHANGED <<nonWkVars, filter_config, wk_removed, force, dest, listing_error, file_reply,
                 wk_dirs, wk_listed, wk_pc, wk_raised, wk_result>>

\* Line 394: the outermost call of download_folder returns its statistics.
SeqReturn ==
  /\ wk_pc = "walking" /\ wk_stack = <<>>
  /\ wk_result' = IF wk_download_tasks = <<>> THEN "zero_stats" ELSE "stats"
  /\ wk_pc' = "returned"
  /\ UNCHANGED <<nonWkVars, filter_config, wk_removed, force, dest, listing_error, file_reply,
                 wk_stack, wk_download_tasks, wk_dirs, wk_listed, wk_log, wk_raised>>

\* The sequential download_folder: its check of the destination, its
\* listing and its return from a directory are those of the parallel walk
\* (lines 328-356, 394); wk_download_tasks holds the files it has downloaded.
NextSequential ==
  \/ Preflight
  \/ ListDir
  \/ ListDirExhausted
  \/ ListDirRaises
  \/ SeqVisitDirRefused
  \/ SeqVisitDirEntered
  \/ SeqVisitFile
  \/ ReturnFromCollect
  \/ SeqReturn

SpecSequential == InitWalk /\ [][NextSequential]_vars

\* ------------------------------------------ filters.py: the file filter

\* The configurations of the filter: patterns that each match one path of
\* the tree; the extension, size, binary, large-file and gitignore filters
\* are off, as they are by default.
FilterConfigs ==
  { [include_patterns |-> i, exclude_patterns |-> e] :
      i \in {{}, {"f"}}, e \in {{}, {"a/x"}, {"f", "b/y"}} }

\* FileFilter._check_pattern_filters (lines 206-224).
check_pattern_filters(config, file_path) ==
  /\ config.include_patterns # {} => file_path \in config.include_patterns
  /\ file_path \notin config.exclude_patterns

\* FileFilter.should_include_file (lines 129-182) with the other filters off.
should_include_file(config, file_path) == check_pattern_filters(config, file_path)

\* download_command has made its FileFilter (main.py lines 238-239) and calls
\* download_folder_parallel; at most one directory cannot be listed.
InitFilter ==
  /\ DownloadIdle
  /\ RetryIdle
  /\ ClassifyIdle
  /\ LimiterIdle
  /\ CacheIdle
  /\ CleanIdle
  /\ WritersIdle
  /\ StatusIdle
  /\ force \in BOOLEAN
  /\ dest \in {"absent", "old"}
  /\ listing_error \in { l \in [Dirs -> ListingErrors] :
                           Cardinality({ d \in Dirs : l[d] # NoException }) <= 1 }
  /\ file_reply \in [Files -> FileReplies]
  /\ filter_config \in FilterConfigs
  /\ wk_stack = <<>>
  /\ wk_download_tasks = <<>>
  /\ wk_dirs = {}
  /\ wk_listed = <<>>
  /\ wk_log = <<>>
  /\ wk_pc = "start"
  /\ wk_raised = NoException
  /\ wk_result = "none"
  /\ wk_removed = {}

SpecFilter == InitFilter /\ [][NextWalk]_vars

\* ----------------------- core.py: download_folder_parallel, walk and batch

\* content.size of the files of the remote tree (line 124 takes it for
\* expected_size): one byte, none, unknown.
ContentSize(path) ==
  CASE path = "f" -> 1
    [] path = "a/x" -> 0
    [] OTHER -> NoSize

\* What neither the walk nor the batch touches.
nonRunVars == <<rtVars, clVars, rsVars, rlVars, caVars, ldVars, cnVars, twVars, stVars>>

\* Lines 141-144: collect_tasks has found no file to download and zero
\* statistics are returned.
RunNoTasks ==
  /\ wk_download_tasks = <<>>
  /\ AfterCollect

\* Lines 146-160: the tasks are given to download_files of a new
\* ParallelDownloader.  Its cache, loaded from the document of earlier
\* sessions, holds an entry for some of the tasks; a file of an earlier
\* session is there only under a destination that is still the old one.
RunHandoff ==
  /\ wk_pc = "walking" /\ wk_stack = <<>> /\ wk_download_tasks # <<>>
  /\ dl_pc = "idle"
  /\ wk_pc' = "downloading"
  /\ download_tasks' = [i \in DOMAIN wk_download_tasks |->
                          [expected_size |-> ContentSize(wk_download_tasks[i]),
                           sha |-> TaskSha]]
  /\ max_concurrent_downloads' \in 1 .. MaxConc
  /\ use_cache' \in BOOLEAN
  /\ verify_integrity' = TRUE
  /\ semaphore' = max_concurrent_downloads'
  /\ pc' = [t \in DOMAIN wk_download_tasks |-> "pending"]
  /\ cache_hit' = [t \in DOMAIN wk_download_tasks |-> FALSE]
  /\ response_status' = [t \in DOMAIN wk_download_tasks |-> 0]
  /\ raised' = [t \in DOMAIN wk_download_tasks |-> "none"]
  /\ total_downloaded' = [t \in DOMAIN wk_download_tasks |-> 0]
  /\ integrity_verified' = [t \in DOMAIN wk_download_tasks |-> FALSE]
  /\ fetches' = [t \in DOMAIN wk_download_tasks |-> 0]
  /\ gathered' = [t \in DOMAIN wk_download_tasks |-> NotReturned]
  /\ \E C \in (IF use_cache' THEN SUBSET DOMAIN wk_download_tasks ELSE {{}}) :
       cache_data' = [t \in C |-> EntryOf(download_tasks'[t])]
  /\ \E S \in (IF dest = "old" THEN SUBSET DOMAIN cache_data' ELSE {{}}) :
       files' = [t \in S |-> cache_data'[t].size]
  /\ cache_file' = cache_data'
  /\ processed_results' = <<>>
  /\ stats' = Stats0
  /\ dl_pc' = "running"
  /\ UNCHANGED <<nonRunVars, filter_config, force, dest, listing_error, file_reply,
                 wk_stack, wk_download_tasks, wk_dirs, wk_listed, wk_log, wk_raised,
                 wk_result, wk_removed>>

\* Lines 160-175: download_files has returned and its statistics are
\* returned.
RunReturn ==
  /\ wk_pc = "downloading"
  /\ dl_pc = "returned"
  /\ wk_pc' = "returned"
  /\ wk_result' = "stats"
  /\ UNCHANGED <<nonWkVars, filter_config, force, dest, listing_error, file_reply,
                 wk_stack, wk_download_tasks, wk_dirs, wk_listed, wk_log, wk_raised,
                 wk_removed>>

\* download_folder_parallel is called on a tree of which at most MaxTasks
\* files have a download_url; the directory b/c may fail to list.
InitRun ==
  /\ DownloadIdle
  /\ RetryIdle
  /\ ClassifyIdle
  /\ LimiterIdle
  /\ CacheIdle
  /\ CleanIdle
  /\ WritersIdle
  /\ StatusIdle
  /\ force \in BOOLEAN
  /\ dest \in {"absent", "old"}
  /\ listing_error \in { l \in [Dirs -> ListingErrors] :
                           \A d \in Dirs \ {"b/c"} : l[d] = NoException }
  /\ file_reply \in { r \in [Files -> { [error |-> NoException, download_url |-> TRUE],
                                        [error |-> NoException, download_url |-> FALSE] }] :
                        Cardinality({ f \in Files : r[f].download_url }) <= MaxTasks }
  /\ filter_config = [include_patterns |-> {}, exclude_patterns |-> {}]
  /\ wk_stack = <<>>
  /\ wk_download_tasks = <<>>
  /\ wk_dirs = {}
  /\ wk_listed = <<>>
  /\ wk_log = <<>>
  /\ wk_pc = "start"
  /\ wk_raised = NoException
  /\ wk_result = "none"
  /\ wk_removed = {}

NextRun ==
  \/ Preflight
  \/ ListDir
  \/ ListDirExhausted
  \/ ListDirRaises
  \/ VisitDir
  \/ VisitFile
  \/ ReturnFromCollect
  \/ RunNoTasks
  \/ RunHandoff
  \/ \E t \in Tasks : Acquire(t)
  \/ \E t \in Tasks : ResponseNot200(t)
  \/ \E t \in Tasks : Response200(t)
  \/ \E t \in Tasks : Chunk(t)
  \/ \E t \in Tasks : Timeout(t)
  \/ \E t \in Tasks : ClientError(t)
  \/ \E t \in Tasks : FetchException(t)
  \/ \E t \in Tasks : StreamEnd(t)
  \/ \E t \in Tasks : VerifyDone(t)
  \/ \E t \in Tasks : VerifyError(t)
  \/ \E t \in Tasks : CacheDone(t)
  \/ \E t \in Tasks : CacheWriteError(t)
  \/ \E t \in Tasks : CacheWriteException(t)
  \/ \E t \in Tasks : CacheSaveRace(t)
  \/ Finish
  \/ RunReturn

SpecRun == InitRun /\ [][NextRun]_vars

\* ---------------------------------------------- properties: the scheduler

\* C1: when download_files returns, the list it returns has exactly one
\* DownloadResult per input task: as many results as tasks, and each task in
\* exactly one of them, whatever each task's pipeline ended with.
C1_OneResultPerTask ==
  dl_pc = "returned" =>
    /\ Len(processed_results) = Len(download_tasks)
    /\ \A t \in DOMAIN download_tasks :
         Cardinality({i \in DOMAIN processed_results :
                        processed_results[i].task = t}) = 1

\* A batch of two has returned after a cache hit and an exception that left a
\* coroutine.
C1_Witness ==
  /\ dl_pc = "returned"
  /\ Len(download_tasks) = 2
  /\ \E a, b \in Tasks :
       /\ cache_hit[a]
       /\ gathered[b].kind = "exception"

\* C2: at every moment the tasks inside the pipeline (past the semaphore and
\* not yet out of it) are at most max_concurrent_downloads, and the semaphore
\* never goes below zero.
C2_ConcurrencyBound ==
  /\ Cardinality({t \in Tasks : pc[t] \in {"fetching", "streaming", "verifying",
                                           "caching"}})
       <= max_concurrent_downloads
  /\ semaphore >= 0

\* As many tasks as the bound allows are in the pipeline while another waits
\* for a permit.
C2_Witness ==
  /\ Cardinality({t \in Tasks : pc[t] \in {"fetching", "streaming", "verifying",
                                           "caching"}}) = max_concurrent_downloads
  /\ semaphore = 0
  /\ \E t \in Tasks : pc[t] = "pending"

\* C3: when every request, chunk wait and executor job ends, download_files
\* eventually returns with a terminal outcome for every task and with every
\* permit back in the semaphore.
C3_EveryTaskEndsAndReturns ==
  <>(/\ dl_pc = "returned"
     /\ \A t \in Tasks : pc[t] = "done" /\ gathered[t] # NotReturned
     /\ semaphore = max_concurrent_downloads)

\* Under a bound of one, a task went through the whole pipeline after an
\* earlier task had left on a timeout, and download_files returned.
C3_Witness ==
  /\ dl_pc = "returned"
  /\ max_concurrent_downloads = 1
  /\ \E a, b \in Tasks :
       /\ a < b
       /\ raised[a] = "TimeoutError"
       /\ b \in DOMAIN cache_data
       /\ fetches[b] = 1

\* C4: a task for which is_file_cached answered true (caching on) gets the
\* result success, from_cache, integrity_verified with bytes_downloaded the
\* expected size (0 when the task carries none), and no request is issued.
C4_CacheHitResult ==
  \A t \in Tasks :
    cache_hit[t] =>
      /\ use_cache
      /\ gathered[t] =
           Returned([task |-> t, success |-> TRUE, error |-> "",
                     bytes_downloaded |->
                       IF download_tasks[t].expected_size = NoSize
                         THEN 0 ELSE download_tasks[t].expected_size,
                     from_cache |-> TRUE, integrity_verified |-> TRUE])
      /\ fetches[t] = 0
      /\ response_status[t] = 0
      /\ (dl_pc = "returned" => processed_results[t] = gathered[t].result)

\* A cache hit on a file of one byte is part of the returned list.
C4_Witness ==
  /\ dl_pc = "returned"
  /\ \E t \in Tasks : cache_hit[t] /\ download_tasks[t].expected_size = 1

\* C5: a task whose response was 200, whose body was streamed to the end and
\* whose verification failed (the checker's IntegrityError, turned into False)
\* ends with success = true and integrity_verified = false, in the coroutine's
\* result and in the returned list.
C5_VerificationFailureIsSuccess ==
  \A t \in Tasks :
    raised[t] = "IntegrityError@verify" =>
      /\ response_status[t] = 200
      /\ gathered[t].kind = "result"
      /\ gathered[t].result.success
      /\ ~gathered[t].result.integrity_verified
      /\ (dl_pc = "returned" =>
            /\ processed_results[t].success
            /\ ~processed_results[t].integrity_verified)

\* A download whose size differs from the expected size is in the returned list.
C5_Witness ==
  /\ dl_pc = "returned"
  /\ \E t \in Tasks :
       /\ raised[t] = "IntegrityError@verify"
       /\ download_tasks[t].expected_size # NoSize
       /\ total_downloaded[t] # download_tasks[t].expected_size

\* C6: a response other than 200 gives a result (not an exception) with
\* success = false and an error message, leaves no local file and no cache
\* entry for the task; a timeout gives a failure result whose message differs
\* from the one of any non-200 response.
C6_Not200AndTimeout ==
  \A t \in Tasks :
    /\ response_status[t] \notin {0, 200} =>
         /\ gathered[t].kind = "result"
         /\ ~gathered[t].result.success
         /\ gathered[t].result.error # ""
         /\ t \notin DOMAIN files
         /\ t \notin DOMAIN cache_data
         /\ (dl_pc = "returned" => processed_results[t] = gathered[t].result)
    /\ raised[t] = "TimeoutError" =>
         /\ gathered[t].kind = "result"
         /\ ~gathered[t].result.success
         /\ gathered[t].result.error # ""
         /\ \A u \in Tasks :
              response_status[u] \notin {0, 200} =>
                gathered[u].result.error # gathered[t].result.error

\* A 404 and a timeout in the middle of a body are in the same returned list.
C6_Witness ==
  /\ dl_pc = "returned"
  /\ \E t, u \in Tasks :
       /\ response_status[t] = 404
       /\ raised[u] = "TimeoutError"
       /\ response_status[u] = 200

\* C7 as stated: every exception met in a task's pipeline (fetch, verification,
\* cache write) makes that task's result a failure.
C7_EveryExceptionFails ==
  dl_pc = "returned" =>
    \A t \in Tasks : raised[t] # "none" => ~processed_results[t].success

\* C7, amended: download_files returns one result per task whatever was
\* raised.  An exception that leaves the coroutine becomes the failure result
\* carrying its text; a timeout, a client error or an OSError out of the
\* verification becomes a failure result inside the coroutine; an
\* IntegrityError inside the verification and an OSError inside the cache write
\* are handled in place and the result stays a success.  A task that met no
\* exception gets the result of its own pipeline, a success unless its
\* response was not 200, whatever the other tasks met.
C7_ExceptionsByHandler ==
  dl_pc = "returned" =>
    /\ Len(processed_results) = Len(download_tasks)
    /\ \A t \in Tasks :
         /\ raised[t] \in {"RuntimeError", "IntegrityError@cache", "RuntimeError@cache"} =>
              /\ gathered[t].kind = "exception"
              /\ processed_results[t] =
                   [task |-> t, success |-> FALSE, error |-> gathered[t].msg,
                    bytes_downloaded |-> 0, from_cache |-> FALSE,
                    integrity_verified |-> FALSE]
         /\ raised[t] \in {"TimeoutError", "ClientError", "OSError@verify"} =>
              /\ ~processed_results[t].success
              /\ processed_results[t].error # ""
         /\ raised[t] \in {"IntegrityError@verify", "OSError@cache"} =>
              processed_results[t].success
         /\ raised[t] = "none" =>
              /\ gathered[t].kind = "result"
              /\ processed_results[t] = gathered[t].result
              /\ processed_results[t].success = (response_status[t] \in {0, 200})

\* One task left its coroutine by an exception while another downloaded its
\* file.
C7_Witness ==
  /\ dl_pc = "returned"
  /\ \E a, c \in Tasks :
       /\ raised[a] \in {"RuntimeError", "IntegrityError@cache"}
       /\ raised[c] = "none"
       /\ processed_results[c].success
       /\ ~processed_results[c].from_cache

\* ------------------------------------------------- properties: the retry

\* C8: retry invokes func once per attempt.  When every call raised a retryable
\* error it stops after max_attempts calls with RetryError; a non-retryable
\* error ends it at once with that same error (after one call when it is the
\* first failure); a call that succeeds ends it with func's value after as
\* many calls as attempts made, never more than max_attempts.
C8_AttemptCounts ==
  LET e == last_exception
      failed == e.type # "none"
      retryable == /\ failed
                   /\ \/ e.type \in {"ConnectionError", "Exception"}
                      \/ e.type = "GithubException" /\ e.status = 403
      not_retryable == /\ failed
                       /\ \/ e.type = "ValueError"
                          \/ e.type = "GithubException" /\ e.status = 404
  IN  /\ calls <= retry_config.max_attempts
      /\ rt_pc = "calling" =>
           /\ calls = attempt
           /\ attempt >= 1 => retryable
      /\ rt_pc = "raised" /\ retryable =>
           /\ rt_raised.type = "RetryError"
           /\ calls = retry_config.max_attempts
      /\ rt_pc = "raised" /\ not_retryable =>
           /\ rt_raised = e
           /\ calls = attempt + 1
           /\ rt_value = "none"
      /\ rt_pc = "returned" =>
           /\ calls = attempt + 1
           /\ rt_value # "none"
           /\ rt_raised.type = "none"

\* Three attempts were allowed, func raised a retryable error three times and
\* retry raised RetryError.
C8_Witness ==
  /\ rt_pc = "raised"
  /\ rt_raised.type = "RetryError"
  /\ retry_config.max_attempts = 3
  /\ calls = 3
  /\ last_exception.type = "ConnectionError"

\* C9: without jitter the delay slept after failed attempt n (no rate limit
\* involved) is min(max_delay, base_delay * backoff_factor^n): 1, 2, 4 seconds
\* for base_delay 1 and backoff_factor 2, and never more than max_delay.
C9_DelayFormula ==
  (/\ rt_pc = "calling"
   /\ attempt >= 1
   /\ ~retry_config.jitter
   /\ ~(last_exception.type = "GithubException" /\ last_exception.status = 403))
  =>
    LET n == attempt - 1
        b == retry_config.base_delay
        f == retry_config.backoff_factor
        m == retry_config.max_delay
    IN  /\ delay = 10 * (IF b * f^n <= m THEN b * f^n ELSE m)
        /\ delay <= 10 * m
        /\ (b = 1 /\ f = 2 /\ m >= 4 /\ n = 0) => delay = 10
        /\ (b = 1 /\ f = 2 /\ m >= 4 /\ n = 1) => delay = 20
        /\ (b = 1 /\ f = 2 /\ m >= 4 /\ n = 2) => delay = 40

\* With base_delay 1, backoff_factor 2 and no jitter the third failed attempt
\* was followed by a sleep of 4 seconds.
C9_Witness ==
  /\ rt_pc = "calling"
  /\ attempt = 3
  /\ ~retry_config.jitter
  /\ retry_config.base_delay = 1
  /\ retry_config.backoff_factor = 2
  /\ last_exception.type = "ConnectionError"
  /\ delay = 40

\* C10: after a GithubException with status 403 whose text contains "rate
\* limit" the sleep is at least 60 seconds under every configuration; after any
\* other retryable error the sleep is what the backoff computed, at most 1.5
\* times max_delay, with no floor.
C10_RateLimitFloor ==
  (rt_pc = "calling" /\ attempt >= 1) =>
    IF last_exception = [type |-> "GithubException", status |-> 403,
                         message |-> <<"API", "rate", "limit", "exceeded">>]
      THEN delay >= 600
      ELSE /\ delay <= 15 * retry_config.max_delay
           /\ delay <= 15 * retry_config.base_delay
                          * retry_config.backoff_factor^(attempt - 1)

\* A rate-limit error was followed by a sleep of 60 seconds under a max_delay
\* of 3 seconds, with jitter on.
C10_Witness ==
  /\ rt_pc = "calling"
  /\ attempt >= 1
  /\ last_exception.type = "GithubException"
  /\ last_exception.status = 403
  /\ last_exception.message = <<"API", "rate", "limit", "exceeded">>
  /\ retry_config.max_delay = 3
  /\ retry_config.jitter
  /\ delay = 600


\* -------------------------------------------- properties: the classification

\* C11, as stated: an exception is retried exactly when it is a network,
\* connection or timeout error, or a GithubException whose status is one of
\* 403, 500, 502, 503, 504 or whose message holds an indicator as a whole
\* word; every other exception is fatal.
C11_StatusOrKeyword ==
  cl_pc = "classified" =>
    LET e == cl_exception
        network == e.type \in {"ConnectionError", "TimeoutError", "OSError", "PermissionError"}
        keyword == e.message \in
          { <<"Request", "timeout">>, <<"Connection", "reset">>, <<"Network", "error">>,
            <<"temporary", "failure">>, <<"Service", "unavailable">>,
            <<"API", "rate", "limit", "exceeded">>, <<"Rate", "Limit">> }
    IN  cl_result =
          (network \/ (e.type = "GithubException"
                        /\ (e.status \in {403, 500, 502, 503, 504} \/ keyword)))

\* C11, amended: an OSError of any kind (ConnectionError and TimeoutError
\* among them) is retried; a GithubException is retried exactly when its status
\* is one of 403, 500, 502, 503, 504, whatever its message says; an exception
\* of any other class is retried exactly when its message holds an indicator
\* as a whole word, in any letter case.
C11_ClassThenStatusThenWords ==
  cl_pc = "classified" =>
    LET e == cl_exception
        keyword == e.message \in
          { <<"Request", "timeout">>, <<"Connection", "reset">>, <<"Network", "error">>,
            <<"temporary", "failure">>, <<"Service", "unavailable">>,
            <<"API", "rate", "limit", "exceeded">>, <<"Rate", "Limit">> }
    IN  cl_result =
          CASE e.type \in {"ConnectionError", "TimeoutError", "OSError", "PermissionError"}
                 -> TRUE
            [] e.type = "GithubException" -> e.status \in {403, 500, 502, 503, 504}
            [] OTHER -> keyword

\* A GithubException with status 404 whose message says "rate limit" has been
\* classified as fatal.
C11_Witness ==
  /\ cl_pc = "classified"
  /\ cl_exception = Error("GithubException", 404, <<"API", "rate", "limit", "exceeded">>)
  /\ cl_result = FALSE

\* ------------------------------------------- properties: the ref resolution

\* C12: when the requested ref names neither a branch nor a tag, the resolution
\* run under retry_api_call is called exactly once, nothing is slept, and the
\* not-found ValueError itself is what the caller gets, not a RetryError;
\* whatever the name of the ref.
C12_NotFoundIsNotRetried ==
  (func = "get_branch_sha"
     /\ branch_or_tag \notin repository.branches \cup repository.tags)
    => /\ calls <= 1
       /\ delay = 0
       /\ rt_pc # "calling" =>
            /\ rt_pc = "raised"
            /\ calls = 1
            /\ rt_raised.type = "ValueError"
            /\ rt_raised = last_exception

\* The ref "temporary-fix" names nothing in the repository; the resolution
\* has been called three times and RetryError is what the caller gets.
C12_Witness ==
  /\ func = "get_branch_sha"
  /\ branch_or_tag = <<"temporary", "fix">>
  /\ branch_or_tag \notin repository.branches \cup repository.tags
  /\ rt_pc = "raised"
  /\ calls = 3
  /\ delay > 0
  /\ rt_raised = RetryError

\* -------------------------------------------- properties: the rate limiter

\* C13: a call of wait_if_needed that finds remaining = 0 in the snapshot of
\* its bucket sleeps at least seconds_until_reset, returns no earlier than
\* one second after reset_time, refreshes the snapshot from the remote API
\* after the sleep, and applies no adaptive spacing: no delay is computed,
\* nothing else is slept and the time of the last request is not set.
C13_ExhaustedWaitsForReset ==
  \A t \in Threads :
    LET f == finished[t]
        decided_at == f.wake_at - f.slept
    IN  (f.path # "none" /\ f.rate_limit.known /\ f.rate_limit.remaining = 0)
          => /\ f.path = "exhausted"
             /\ f.slept >= seconds_until_reset(f.rate_limit, decided_at) * 1000
             /\ f.returned_at >= (f.rate_limit.reset_time + 1) * 1000
             /\ f.refresh_after_wait \in {"ok", "failed"}
             /\ f.delay = 0
             /\ (n_threads = 1 /\ wpc[t] = "idle")
                  => last_request_time = f.stamp_at_call

\* A call has found the core quota exhausted three seconds before its reset,
\* has slept, has refreshed the snapshot and has returned.
C13_Witness ==
  \E t \in Threads :
    /\ finished[t].path = "exhausted"
    /\ finished[t].operation_type = "core"
    /\ finished[t].rate_limit.remaining = 0
    /\ finished[t].slept = 3000
    /\ finished[t].refresh_after_wait = "ok"
    /\ wpc[t] = "idle"

\* C14: with one thread calling, a call of wait_if_needed that finds
\* remaining > 0 returns no earlier than its adaptive delay after the
\* previous call for the same bucket returned, and sleeps nothing when that
\* much time has passed already; whatever the previous call was (normal,
\* quota exhausted, no snapshot).
C14_SpacedFromPreviousReturn ==
  n_threads = 1 =>
    \A t \in Threads :
      LET f == finished[t]
          decided_at == f.returned_at - f.slept
      IN  (f.path = "normal" /\ f.rate_limit.remaining > 0 /\ f.prev_return > 0)
            => /\ f.returned_at - f.prev_return >= f.delay
               /\ decided_at - f.prev_return >= f.delay => f.slept = 0

\* The only thread's first call for the core bucket returned without setting
\* the time of the last request (it waited for the reset, or had no snapshot);
\* its second call, for the same bucket, computed a delay and returned sooner
\* than that after the first had returned.
C14_Witness ==
  /\ n_threads = 1
  /\ n_calls[1] = 2
  /\ wpc[1] = "idle"
  /\ finished[1].path = "normal"
  /\ finished[1].operation_type = "core"
  /\ finished[1].prev_return > 0
  /\ finished[1].stamp_at_call = 0
  /\ finished[1].returned_at - finished[1].prev_return < finished[1].delay

\* C15: two threads that call wait_if_needed for the same bucket and both find
\* remaining > 0 never return within less than the computed delay of each
\* other: the one that returns second does so no earlier than its delay after
\* the first, the time of the last request being read, judged and set as one
\* step under the lock.
C15_ConcurrentCallsAreSpaced ==
  \A a \in Threads : \A b \in Threads \ {a} :
    LET fa == finished[a]
        fb == finished[b]
    IN  (/\ fa.path = "normal"
         /\ fb.path = "normal"
         /\ fa.operation_type = fb.operation_type
         /\ fa.returned_at <= fb.returned_at)
          => fb.returned_at - fa.returned_at >= fb.delay

\* Two threads have called for the core bucket, each has read the same time
\* of the last request before the other set it, and both have returned at the
\* same moment although each had computed a delay of four seconds.
C15_Witness ==
  /\ n_threads = 2
  /\ \A t \in Threads :
       /\ wpc[t] = "idle"
       /\ finished[t].path = "normal"
       /\ finished[t].operation_type = "core"
       /\ finished[t].stamp_at_call = 0
       /\ finished[t].delay = 4000
       /\ finished[t].slept = 0
  /\ finished[1].returned_at = finished[2].returned_at

\* C16: when the query of the remote quota fails during a refresh, the step
\* leaves the core snapshot, the search snapshot and the time of the last
\* update as they were, releases the lock, and the call of wait_if_needed
\* goes on (to the choice of the snapshot, or to its return after the wait
\* for the reset) instead of raising.
C16_FailedRefreshChangesNothing ==
  [][\A t \in Threads :
       LET failed_at_start == /\ wpc[t] = "updating"
                              /\ wpc'[t] # "updating"
                              /\ frame'[t].refresh_at_start = "failed"
           failed_after_wait == /\ wpc[t] = "updating_after_wait"
                                /\ wpc'[t] # "updating_after_wait"
                                /\ finished'[t].refresh_after_wait = "failed"
       IN  (failed_at_start \/ failed_after_wait)
             => /\ core_rate_limit' = core_rate_limit
                /\ search_rate_limit' = search_rate_limit
                /\ last_update' = last_update
                /\ lock' = 0
                /\ failed_at_start => wpc'[t] = "select"
                /\ failed_after_wait => wpc'[t] = "idle" /\ finished'[t].path = "exhausted"
    ]_vars

\* A refresh older than thirty seconds was due at the start of a call and
\* failed; the snapshots of the first refresh are still there and the call
\* is about to choose one.
C16_Witness ==
  \E t \in Threads :
    /\ wpc[t] = "select"
    /\ frame[t].refresh_at_start = "failed"
    /\ core_rate_limit.known
    /\ search_rate_limit.known
    /\ last_update > 0
    /\ clock - last_update > RefreshAge

\* ------------------------------------------------- properties: the cache

C17_CachedAfterAdd ==
  [][(/\ ca_last.op = "add"
      /\ ca_last'.op = "is_file_cached"
      /\ ca_last'.key = ca_last.key)
       => ca_last'.hit = (/\ ca_last'.sha = ca_last.sha
                          /\ ca_last'.size = ca_last.size
                          /\ ca_last.key \in DOMAIN files'
                          /\ files'[ca_last.key] = ca_last.size)
    ]_vars

\* is_file_cached has answered true for the hash and size just added, the
\* local file being there with that length.
C17_Witness ==
  /\ ca_last.op = "is_file_cached"
  /\ ca_last.after_add
  /\ ca_last.hit
  /\ ca_last.sha = "sha_now"
  /\ ca_last.size = 1
  /\ ca_last.key \in DOMAIN files
  /\ files[ca_last.key] = 1

\* C18: a call of is_file_cached changes the map at most by removing the key
\* asked about, and removes it only when the local file is not there or its
\* length is not the one the entry records.  The map is unchanged when there
\* is no entry, when the answer is true, and when the entry, its file being
\* there, has another hash or size than the remote ones; no other key is
\* touched; the same call made again, the files being as they were, gives the
\* same answer and changes nothing.
C18_OnlyStaleEntriesRemoved ==
  [][(ca_last'.op = "is_file_cached" /\ ca_last'.parity # ca_last.parity)
       => LET key == ca_last'.key
              had == key \in DOMAIN cache_data
              file_there == key \in DOMAIN files'
          IN  /\ cache_data' = cache_data
                 \/ (had /\ cache_data' = Del(cache_data, key))
              /\ cache_data' # cache_data
                   => (~file_there \/ files'[key] # cache_data[key].size)
              /\ ~had => cache_data' = cache_data
              /\ ca_last'.hit => cache_data' = cache_data
              /\ (had /\ file_there
                    /\ (cache_data[key].sha # ca_last'.sha
                          \/ cache_data[key].size # ca_last'.size))
                   => cache_data' = cache_data
              /\ \A other \in CacheKeys \ {key} :
                   /\ other \in DOMAIN cache_data' <=> other \in DOMAIN cache_data
                   /\ other \in DOMAIN cache_data => cache_data'[other] = cache_data[other]
              /\ (ca_last'.repeated /\ files' = files)
                   => /\ ca_last'.hit = ca_last.hit
                      /\ cache_data' = cache_data
    ]_vars

\* The same call of is_file_cached has been made twice over a local file
\* longer than its entry says: the first removed the entry, and now there is
\* none and the answer is false again, the other key's entry being in place.
C18_Witness ==
  /\ ca_last.op = "is_file_cached"
  /\ ca_last.repeated
  /\ ~ca_last.hit
  /\ ca_last.key = 1
  /\ 1 \notin DOMAIN cache_data
  /\ 1 \in DOMAIN files
  /\ 2 \in DOMAIN cache_data
  /\ 1 \in DOMAIN cache_file

\* ------------------------------------- properties: loading the document

\* C20: when a DownloadCache has been made over a document that is no saved
\* cache (a file that cannot be read, text that is no JSON, a JSON value that
\* is no object, an object with a member that is no entry object, that lacks
\* a key from_dict reads, or whose size is no number), the constructor has
\* returned, not raised, and cache_data is empty.
C20_CorruptDocumentLoadsEmpty ==
  ( /\ ld_pc \in {"constructed", "raised"}
    /\ \/ ld_document.kind \in {"unreadable", "text"}
       \/ /\ ld_document.kind = "json"
          /\ \/ ld_document.value.type # "object"
             \/ \E i \in DOMAIN ld_document.value.members :
                  LET m == ld_document.value.members[i]
                  IN  \/ m.type # "object"
                      \/ \E k \in DOMAIN RequiredKeys : RequiredKeys[k] \notin DOMAIN m.fields
                      \/ m.fields["size"].type # "number" )
  => (ld_pc = "constructed" /\ ld_cache_data = <<>>)

\* The document is a JSON list, and making the cache over it has raised
\* AttributeError.
C20_Witness ==
  /\ ld_pc = "raised"
  /\ ld_raised = "AttributeError"
  /\ ld_document = [kind |-> "json", value |-> JsonValue("list")]

\* ------------------------------------ properties: saving and loading again

\* C21: when a cache of N entries has been saved and a new DownloadCache has
\* been loaded from the same document, the new cache has the same N keys and
\* under each key an entry with the same file_path, sha, size, last_modified,
\* download_time and checksums.
C21_RoundTrip ==
  (ld_pc = "constructed" /\ ld_document.kind = "json")
  => /\ DOMAIN ld_cache_data = DOMAIN sv_cache_data
     /\ \A k \in DOMAIN sv_cache_data :
          /\ ld_cache_data[k].file_path = sv_cache_data[k].file_path
          /\ ld_cache_data[k].sha = sv_cache_data[k].sha
          /\ ld_cache_data[k].size = sv_cache_data[k].size
          /\ ld_cache_data[k].last_modified = sv_cache_data[k].last_modified
          /\ ld_cache_data[k].download_time = sv_cache_data[k].download_time
          /\ ld_cache_data[k].checksums = sv_cache_data[k].checksums

\* Two entries, the first with a digest and the second without, have been
\* saved and loaded.
C21_Witness ==
  /\ ld_pc = "constructed"
  /\ ld_document.kind = "json"
  /\ Len(sv_cache_data) = 2
  /\ sv_cache_data[1].checksums # JsonObject(<<>>)
  /\ sv_cache_data[2].checksums = JsonObject(<<>>)
  /\ sv_cache_data[1].sha # sv_cache_data[2].sha

\* ------------------------------------------- properties: the tree walk

\* C22: when download_folder_parallel has ended after a walk in which the
\* listing of exactly one subdirectory could not be obtained, it has not
\* raised, and download_tasks holds the task of every file that lies outside
\* that subdirectory and whose get_contents gave a download_url.
C22_OnlyFailedSubtreeSkipped ==
  \A d \in Dirs \ {"root"} :
    ( /\ wk_pc \in {"returned", "raised"}
      /\ dest = "new"
      /\ listing_error[d] # NoException
      /\ \A o \in Dirs \ {d} : listing_error[o] = NoException )
    => /\ wk_pc = "returned"
       /\ \A f \in Files :
            ( /\ d \notin ParentDirs(f)
              /\ file_reply[f] = [error |-> NoException, download_url |-> TRUE] )
            => \E i \in DOMAIN wk_download_tasks : wk_download_tasks[i] = f

\* The listing of a alone fails, with 404; download_folder_parallel has
\* raised, and the task of the root's file f, which GitHub would have
\* answered, was not collected.
C22_Witness ==
  /\ wk_pc = "raised"
  /\ wk_raised = Error("GithubException", 404, <<"Not", "Found">>)
  /\ listing_error["a"] = wk_raised
  /\ \A o \in Dirs \ {"a"} : listing_error[o] = NoException
  /\ file_reply["f"] = [error |-> NoException, download_url |-> TRUE]
  /\ wk_download_tasks = <<>>

\* C23: once the pre-flight is over with the destination there and force
\* off, download_folder_parallel has raised an AlreadyExists error, no
\* listing was requested, no task was collected or scheduled and the
\* destination is as it was; with force on, the destination that was there
\* is gone by the time the first listing is requested.
C23_ExistingDestination ==
  /\ (wk_pc \notin {"idle", "start"} /\ ~force /\ dest = "old")
     => /\ wk_pc = "raised"
        /\ wk_raised.type = "AlreadyExists"
        /\ wk_listed = <<>>
        /\ wk_download_tasks = <<>>
        /\ wk_result = "none"
  /\ (force /\ wk_listed # <<>>) => dest = "new"

\* The destination was there and force is off: download_folder_parallel has
\* returned zero statistics after logging the error, without any listing.
C23_Witness ==
  /\ wk_pc = "returned"
  /\ ~force
  /\ dest = "old"
  /\ wk_result = "zero_stats"
  /\ wk_raised = NoException
  /\ wk_log = <<"Output folder already exists">>
  /\ wk_listed = <<>>

\* ------------------------------------------- properties: the statistics

\* The bytes of the results from the i-th on that were fetched, not served
\* from the cache.
RECURSIVE FetchedBytes(_, _)
FetchedBytes(rs, i) ==
  IF i > Len(rs) THEN 0
  ELSE (IF rs[i].success /\ ~rs[i].from_cache THEN rs[i].bytes_downloaded ELSE 0)
       + FetchedBytes(rs, i + 1)

\* C24: when download_files has returned the results of a batch, the
\* statistics count the results with success, the results without, the
\* results served from the cache, and in total_bytes the bytes that were
\* fetched, to which a cache hit adds nothing.
C24_StatsOfBatch ==
  (dl_pc = "returned" /\ N > 0)
  => /\ stats.successful_downloads =
          Cardinality({i \in DOMAIN processed_results : processed_results[i].success})
     /\ stats.failed_downloads =
          Cardinality({i \in DOMAIN processed_results : ~processed_results[i].success})
     /\ stats.cached_files =
          Cardinality({i \in DOMAIN processed_results : processed_results[i].from_cache})
     /\ stats.total_bytes = FetchedBytes(processed_results, 1)

\* One file of one chunk was fetched and one of one chunk was served from the
\* cache, and total_bytes counts two chunks.
C24_Witness ==
  /\ dl_pc = "returned"
  /\ N = 2
  /\ \E i, j \in DOMAIN processed_results :
       /\ processed_results[i].success /\ ~processed_results[i].from_cache
       /\ processed_results[i].bytes_downloaded = 1
       /\ processed_results[j].from_cache
       /\ processed_results[j].bytes_downloaded = 1
  /\ stats.successful_downloads = 2
  /\ stats.cached_files = 1
  /\ stats.total_bytes = 2

\* --------------------------------------- properties: the file of a task

\* C25: when a task has ended with success = false after a response other
\* than 200, a timeout or a connection or I/O error, no file that the task
\* opened is left at its local destination.
C25_NoPartialFile ==
  \A t \in Tasks :
    ( /\ pc[t] = "done"
      /\ gathered[t].kind = "result"
      /\ ~gathered[t].result.success
      /\ raised[t] \in {"none", "TimeoutError", "ClientError"} )
    => ~(response_status[t] = 200 /\ t \in DOMAIN files)

\* A task that expected one chunk met a timeout after the response 200 and
\* before any chunk: its result is a failure and the file it opened is there,
\* empty.
C25_Witness ==
  \E t \in Tasks :
    /\ pc[t] = "done"
    /\ gathered[t].kind = "result"
    /\ ~gathered[t].result.success
    /\ raised[t] = "TimeoutError"
    /\ response_status[t] = 200
    /\ download_tasks[t].expected_size = 1
    /\ t \in DOMAIN files
    /\ files[t] = 0

\* C26: at every step and for every task not served from the cache, the task
\* moves forward through fetch, stream, verification, cache write and result;
\* an entry under its key is in the cache only once its response was 200,
\* its stream has ended and, with verification on, the verification has not
\* failed; and a task that has ended with a failure has no entry.
C26_CacheWriteOrder ==
  [][ \A t \in Tasks :
        LET Rank(p) == CASE p = "pending" -> 0 [] p = "fetching" -> 1
                         [] p = "streaming" -> 2 [] p = "verifying" -> 3
                         [] p = "caching" -> 4 [] OTHER -> 5
            failed == \/ gathered'[t].kind = "exception"
                      \/ gathered'[t].kind = "result" /\ ~gathered'[t].result.success
        IN  /\ Rank(pc'[t]) >= Rank(pc[t])
            /\ (pc'[t] # "pending" /\ ~cache_hit'[t] /\ t \in DOMAIN cache_data')
               => /\ response_status'[t] = 200
                  /\ pc'[t] \in {"caching", "done"}
                  /\ verify_integrity => integrity_verified'[t]
                  /\ ~failed ]_vars

\* The cache write of a task met the RuntimeError of a map that changed
\* under its iteration: the task has ended with an exception and its entry
\* is in the cache.
C26_Witness ==
  \E t \in Tasks :
    /\ pc[t] = "done"
    /\ raised[t] = "RuntimeError@cache"
    /\ gathered[t].kind = "exception"
    /\ ~cache_hit[t]
    /\ t \in DOMAIN cache_data

\* ------------------------------------- properties: add_file_to_cache

C28_EveryStaleEntryRemoved ==
  [][(ca_last'.op = "is_file_cached" /\ ca_last'.parity # ca_last.parity)
       => LET key == ca_last'.key
          IN  ( /\ key \in DOMAIN cache_data
                /\ \/ key \notin DOMAIN files'
                   \/ files'[key] # cache_data[key].size
                   \/ cache_data[key].sha # ca_last'.sha )
              => key \notin DOMAIN cache_data'
    ]_vars

\* C28, amended: a call of is_file_cached for a key that had an entry removes
\* the entry when the local file is missing, and when the entry has the
\* remote hash and size but the local file another length; an entry whose
\* file is there and whose hash or size is not the remote one is answered
\* false and stays in the map as it was.
C28_StaleEntryRemovedUnlessOutdated ==
  [][(ca_last'.op = "is_file_cached" /\ ca_last'.parity # ca_last.parity)
       => LET key == ca_last'.key
              had == key \in DOMAIN cache_data
              file_there == key \in DOMAIN files'
              outdated == \/ cache_data[key].sha # ca_last'.sha
                          \/ cache_data[key].size # ca_last'.size
          IN  /\ (had /\ ~file_there) => key \notin DOMAIN cache_data'
              /\ (had /\ file_there /\ ~outdated /\ files'[key] # cache_data[key].size)
                   => key \notin DOMAIN cache_data'
              /\ (had /\ file_there /\ outdated)
                   => /\ ~ca_last'.hit
                      /\ key \in DOMAIN cache_data'
                      /\ cache_data'[key] = cache_data[key]
    ]_vars

\* is_file_cached was asked about a file that is there, with a remote hash
\* other than the stored one: the answer is false and the entry is in the map.
C28_Witness ==
  /\ ca_last.op = "is_file_cached"
  /\ ~ca_last.hit
  /\ ~ca_last.files_changed
  /\ ca_last.key \in DOMAIN cache_data
  /\ ca_last.key \in DOMAIN files
  /\ cache_data[ca_last.key].sha = "sha_old"
  /\ ca_last.sha = "sha_now"
  /\ files[ca_last.key] = cache_data[ca_last.key].size

\* ---------------------------------------- properties: clean_cache

\* C29: after clean_cache(max_age_days), the entries of the map are those it
\* held before whose download_time is at most max_age_days before the time of
\* the call, each as it was; the value returned is the number of the others;
\* and _save_cache was called if and only if that number is not zero, the
\* document being the image of the new map when the write went through and
\* the old document when no write was attempted.
C29_CleanRemovesExactlyOld ==
  cn_last.op = "clean_cache"
    => LET before == cn_last.before
           old(key) == cn_last.current_time - before[key].download_time.value
                         > cn_last.max_age_days * 86400
           removed == { key \in DOMAIN before : old(key) }
       IN  /\ DOMAIN sv_cache_data = DOMAIN before \ removed
           /\ \A key \in DOMAIN sv_cache_data : sv_cache_data[key] = before[key]
           /\ cn_last.returned = Cardinality(removed)
           /\ (cn_last.saved # "none") <=> (removed # {})
           /\ cn_last.saved = "written" => ld_document = dump_cache(sv_cache_data)
           /\ cn_last.saved = "none" => ld_document = cn_last.document

\* clean_cache removed one entry of two and wrote the document; the entry it
\* kept was exactly max_age_days old.
C29_Witness ==
  /\ cn_last.op = "clean_cache"
  /\ cn_last.returned = 1
  /\ cn_last.saved = "written"
  /\ \E key \in DOMAIN sv_cache_data :
       cn_last.current_time - sv_cache_data[key].download_time.value
         = cn_last.max_age_days * 86400
  /\ ld_document = dump_cache(sv_cache_data)
  /\ ld_document # cn_last.document

\* ---------------------------------------- properties: concurrent cache writes

\* A thread is in its cache write from its insertion into the map to the
\* end of its save.
InCacheWrite(w) == tw_pc[w] \in {"inserted", "iterating", "opening", "writing"}

\* C30 as stated: the cache writes of the threads are serialized.  At most
\* one thread at a time is in its cache write; the map of a thread that
\* iterates has the number of items it had when the iteration began; and
\* when no thread has the file open, the file is the document of a value the
\* map has had.
C30_CacheWritesSerialized ==
  /\ Cardinality({ w \in Writers : InCacheWrite(w) }) <= 1
  /\ \A w \in Writers :
       /\ tw_pc[w] = "iterating" => Len(tw_cache_data) = tw_iter[w].used
       /\ tw_pc[w] # "RuntimeError"
  /\ (\A w \in Writers : tw_pc[w] # "writing")
       => tw_file \in { document_of(cd) : cd \in tw_history }

\* Both threads have left add_file_to_cache without an exception, and the
\* file is the document of no value the map has had.
C30_Witness ==
  /\ \A w \in Writers : tw_pc[w] = "done"
  /\ tw_file \notin { document_of(cd) : cd \in tw_history }
  /\ Len(tw_file) > 0

\* ---------------------------------------- properties: the quota query

\* C31 as stated: no thread's wait_if_needed begins the refresh at the start
\* of its call (the query of the remote quota) at a moment when the core
\* snapshot is held and the last refresh that went through is at most
\* RefreshAge old; the refresh after a wait for the reset is exempt.
C31_QueryOnlyWhenStale ==
  [][\A t \in Threads :
       (wpc[t] = "update" /\ wpc'[t] = "updating")
         => ~(core_rate_limit.known /\ clock - last_update <= RefreshAge)
    ]_vars

\* A thread is in the query it began at the start of its call, and the core
\* snapshot is held and at most RefreshAge old: another thread's refresh went
\* through after this thread had found the snapshot stale.
C31_Witness ==
  \E t \in Threads :
    /\ wpc[t] = "updating"
    /\ lock = t
    /\ core_rate_limit.known
    /\ clock - last_update <= RefreshAge
    /\ \E u \in Threads \ {t} : finished[u].refresh_at_start = "ok" \/ frame[u].refresh_at_start = "ok"

\* ---------------------------------------- properties: the status query

\* C32 as stated: a call of get_rate_limit_status leaves the core snapshot,
\* the search snapshot, the time of the last update and the time of the last
\* request as they were, and puts the thread to no sleep.
C32_StatusIsReadOnly ==
  [][st_last' # st_last
       => /\ UNCHANGED <<core_rate_limit, search_rate_limit, last_update,
                         last_request_time>>
          /\ UNCHANGED wpc
    ]_vars

\* C32, amended: a call of get_rate_limit_status never changes the time of
\* the last request and never sleeps; it leaves both snapshots and the time
\* of the last update as they were when a core snapshot is held that is at
\* most RefreshAge old, and when its query of the remote API fails;
\* otherwise it replaces both snapshots by the answer and sets the time of
\* the last update to the time of the call.
C32_StatusRefreshesOnlyWhenStale ==
  [][st_last' # st_last
       => LET fresh == core_rate_limit.known /\ clock' - last_update <= RefreshAge
          IN  /\ UNCHANGED last_request_time
              /\ UNCHANGED wpc
              /\ fresh <=> st_last'.refreshed = "none"
              /\ st_last'.refreshed \in {"none", "failed"}
                   => UNCHANGED <<core_rate_limit, search_rate_limit, last_update>>
              /\ st_last'.refreshed = "ok"
                   => /\ last_update' = clock'
                      /\ core_rate_limit'.known
                      /\ search_rate_limit'.known
              /\ st_last'.status = status_of(core_rate_limit', search_rate_limit', clock')
    ]_vars

\* get_rate_limit_status was called over an old core snapshot, after a call
\* of wait_if_needed had set the time of the last request, and has put
\* another snapshot in its place.
C32_Witness ==
  /\ st_last.op = "get_rate_limit_status"
  /\ st_last.refreshed = "ok"
  /\ last_update = clock
  /\ last_request_time > 0
  /\ core_rate_limit.known
  /\ "core" \in DOMAIN st_last.status

\* ---------------------------------------- properties: the adaptive delay

\* C33: the delay wait_if_needed has computed for a snapshot with something
\* remaining and the reset still to come is, in milliseconds, a tenth of the
\* seconds to the reset and at most 60 s when what remains is within the
\* buffer; otherwise the seconds to the reset over what remains beyond the
\* buffer, times 2.0 over 80% of use, 1.5 over 60% and 1.0 below, at least
\* 0.1 s and at most 30 s.  So it is from 0.1 s to 60 s, and to 30 s outside
\* the buffer.
C33_AdaptiveDelayFormula ==
  \A t \in Threads :
    LET call == IF wpc[t] = "idle" THEN finished[t] ELSE frame[t]
        rate_limit == call.rate_limit
        until_reset == rate_limit.reset_time - (call.began_at \div 1000)
        available == rate_limit.remaining - buffer_requests
        f10 == IF rate_limit.used * 100 > 80 * rate_limit.limit THEN 20
               ELSE IF rate_limit.used * 100 > 60 * rate_limit.limit THEN 15
               ELSE 10
        scaled == (until_reset * 1000 * f10) \div (available * 10)
    IN  (rate_limit.known /\ rate_limit.remaining > 0 /\ until_reset > 0)
          => /\ available <= 0
                  => call.delay = (IF until_reset * 100 < 60000 THEN until_reset * 100
                                   ELSE 60000)
             /\ available > 0
                  => /\ call.delay = (IF scaled < 100 THEN 100
                                      ELSE IF scaled > 30000 THEN 30000 ELSE scaled)
                     /\ call.delay <= 30000
             /\ call.delay >= 100
             /\ call.delay <= 60000

\* A call has returned whose delay was cut to 30 s: little remains beyond the
\* buffer, more than 80% is used and the reset is far.
C33_Witness ==
  \E t \in Threads :
    /\ wpc[t] = "idle"
    /\ finished[t].path = "normal"
    /\ finished[t].rate_limit.remaining - buffer_requests = 1
    /\ finished[t].rate_limit.used * 100 > 80 * finished[t].rate_limit.limit
    /\ finished[t].rate_limit.reset_time = 3700
    /\ finished[t].delay = 30000

\* ---------------------------------------- properties: the destination check

\* How often an entry is in the log.
TimesLogged(entry) == Cardinality({ i \in DOMAIN wk_log : wk_log[i] = entry })

\* The listing of every directory from the root down to path is given.
ListingsGiven(path) ==
  \A d \in ParentDirs(path) : retry_api_call(listing_error[d]) = NoException

\* C34: the existing destination is refused or removed once, for the root and
\* before anything is listed.  When the walk has returned with force off,
\* every directory found in a listing has been listed in its turn and every
\* file found that could be fetched is among the downloads; at any time no
\* directory below the root has been removed.
C34_DestinationCheckedOnce ==
  /\ TimesLogged("Output folder already exists") <= 1
  /\ TimesLogged("Output folder already exists") = 1 => wk_listed = <<>>
  /\ wk_removed \subseteq {"root"}
  /\ (wk_pc = "returned" /\ wk_listed # <<>>)
       => /\ \A d \in Dirs \ {"root"} :
               ListingsGiven(d) => \E i \in DOMAIN wk_listed : wk_listed[i] = d
          /\ \A f \in Files :
               ( /\ ListingsGiven(f)
                 /\ file_reply[f] = [error |-> NoException, download_url |-> TRUE]
                 /\ TimesLogged("Download failed after retries") = 0 )
               => \E i \in DOMAIN wk_download_tasks : wk_download_tasks[i] = f

\* The sequential download_folder has returned with force off over a
\* destination that was not there and a tree it could list: it listed the
\* root alone, refused both of the root's directories and downloaded f alone.
C34_Witness ==
  /\ wk_pc = "returned"
  /\ ~force
  /\ \A d \in Dirs : listing_error[d] = NoException
  /\ wk_listed = <<"root">>
  /\ TimesLogged("Output folder already exists") = 2
  /\ wk_dirs = {"a", "b"}
  /\ wk_download_tasks = <<"f">>

\* ---------------------------------------- properties: the file filter

\* C35: every task collect_tasks has made is for a file the configured
\* filter includes.
C35_NoTaskForRejectedFile ==
  \A i \in DOMAIN wk_download_tasks :
    should_include_file(filter_config, wk_download_tasks[i])

\* download_folder_parallel has returned with a task for a/x, which the
\* filter's exclude pattern matches.
C35_Witness ==
  /\ wk_pc = "returned"
  /\ "a/x" \in filter_config.exclude_patterns
  /\ \E i \in DOMAIN wk_download_tasks : wk_download_tasks[i] = "a/x"
  /\ ~should_include_file(filter_config, "a/x")

\* ---------------------------------------- properties: the executor jobs

\* C36: the tasks whose verification or cache write is running in an
\* executor thread are never more than max(1, max_concurrent_downloads // 2).
C36_ExecutorJobsBounded ==
  Cardinality({ t \in Tasks : pc[t] \in {"verifying", "caching"} })
    <= Max(1, max_concurrent_downloads \div 2)

\* With two permits both tasks have their verification running, each in the
\* one thread of its own executor.
C36_Witness ==
  /\ max_concurrent_downloads = 2
  /\ verify_integrity
  /\ Cardinality({ t \in Tasks : pc[t] = "verifying" }) = 2

\* ---------------------------------------- properties: the walk and the cache

C38_StatsAddUp ==
  dl_pc = "returned"
    => /\ stats.successful_downloads + stats.failed_downloads = stats.total_downloads
       /\ stats.cached_files <= stats.successful_downloads
       /\ get_stats(stats).success_rate \in 0 .. 100
       /\ get_stats(stats).cache_hit_rate \in 0 .. 100

\* A second call has returned: one task in it, two successes counted over
\* the calls, a success rate of 200.
C38_Witness ==
  /\ dl_pc = "returned"
  /\ N = 1
  /\ stats.total_downloads = 1
  /\ stats.successful_downloads = 2
  /\ get_stats(stats).success_rate = 200

\* --------------------------------- properties: what the save policy leaves

\* C39: while keys are added one by one to a cache that began empty, at most
\* 4 entries of the map are not in the document, and none when the map holds
\* at most 3 entries or a multiple of 5.
C39_UnsavedAtMostFour ==
  LET n == Cardinality(DOMAIN cache_data)
      unsaved == Cardinality(Unsaved(cache_data, cache_file))
  IN  /\ unsaved <= 4
      /\ (n <= 3 \/ n % 5 = 0) => unsaved = 0

\* Nine keys were added, the ninth just now; the last save was at five.
C39_Witness ==
  /\ ca_last.op = "add"
  /\ Cardinality(DOMAIN cache_data) = 9
  /\ Cardinality(DOMAIN cache_file) = 5
  /\ Cardinality(Unsaved(cache_data, cache_file)) = 4

\* --------------------------------------- properties: finalize and evictions

\* C40: when download_files has returned with the cache on, finalize having
\* run, the document holds exactly the keys of the map; a key whose entry a
\* lookup of the session removed and that was not added again is not in the
\* document a later DownloadCache loads.
C40_DocumentHasTheKeysOfTheMap ==
  (dl_pc = "returned" /\ use_cache /\ N # 0)
    => /\ DOMAIN cache_file = DOMAIN cache_data
       /\ \A t \in Tasks : t \notin DOMAIN cache_data => t \notin DOMAIN cache_file

\* The only entry of the cache was removed by the lookup, its file being
\* gone; the download failed, so nothing was added; finalize found the map
\* empty and the document still holds the entry.
C40_Witness ==
  /\ dl_pc = "returned"
  /\ use_cache
  /\ N = 1
  /\ ~cache_hit[1]
  /\ fetches[1] = 1
  /\ ~processed_results[1].success
  /\ cache_data = <<>>
  /\ 1 \in DOMAIN cache_file

====
